---- MODULE Spec2Model ----
(***************************************************************************)
(* A model of the baidusync synchronization engine: the three-way diff     *)
(* decider (internal/sync/diff.go), the reconciliation driver and its      *)
(* worker pool, the transfer pipeline and the conflict resolver            *)
(* (internal/sync/engine.go), over the local and remote file system ports  *)
(* and the snapshot store, and the supervisor of cmd/baidusync/main.go     *)
(* that starts the cycles and shuts the process down.                      *)
(*                                                                         *)
(* Times are whole seconds.  File contents are byte strings (sequences of  *)
(* numbers); a hash is a sequence, the empty sequence standing for Go's    *)
(* empty string.                                                           *)
(***************************************************************************)
EXTENDS Integers, Sequences, FiniteSets, TLC

VARIABLES
    cmp,        \* the decider exercised on its own: [l, r, b, enc, op]
    opts,       \* EngineOptions: [EncryptKey, MaxWorkers, ConflictStrategy]
    port,       \* the ports and the store called on their own:
                \* [bucket, start, calls, ret]
    localFS,    \* the local tree: path -> [IsDir, Data, ModTime]
    remoteFS,   \* the remote tree: path -> [Data, ModTime]
    stateDB,    \* the snapshot store: path -> FileState
    now,        \* the wall clock, in seconds
    faults,     \* how many more calls of a port or of the store may fail
    sup,        \* main: [isSyncing, wg, cancelled, exited, inFlight]
    pc,         \* where Run is: "idle", "run" (called), "diff" (the decision
                \* loop), "work" (the worker pool)
    localMap,   \* Run's localMap
    remoteMap,  \* Run's remoteMap
    baseMap,    \* Run's baseMap
    allPaths,   \* the paths the decision loop has still to visit
    tasks,      \* Run's tasks slice, then the contents of taskChan
    workers,    \* the worker goroutines: id -> record
    errs,       \* the number of errors sent to errChan
    ops,        \* what compare returned for each path visited in this Run
    cur,        \* what the tasks of this Run have done so far
    lastRun     \* what the last Run that returned did and returned

\* ------------------------------------------------------------------ data

\* A nil pointer (*fs.FileMeta, *database.FileState) or a missing map entry.
Nil == [nil |-> TRUE]

\* Go's empty string in a hash field.
NoHash == <<>>

\* diff.go: const EncryptedOverhead = 16
EncryptedOverhead == 16

\* diff.go: 2*time.Second, in seconds
MTimeTolerance == 2

\* part_001: OpType
OpIgnore == "Ignore"
OpUpload == "Upload"
OpDownload == "Download"
OpDeleteRemote == "DeleteRemote"
OpDeleteLocal == "DeleteLocal"
OpConflict == "Conflict"

OpTypes == {OpIgnore, OpUpload, OpDownload, OpDeleteRemote, OpDeleteLocal, OpConflict}

\* fs.FileMeta
FileMeta(size, mtime, isDir, hash, rhash) ==
    [Size |-> size, ModTime |-> mtime, IsDir |-> isDir, Hash |-> hash, RemoteHash |-> rhash]

\* database.FileState (LastSyncTime and IsDir are never read by the engine)
FileState(size, mtime, lhash, rhash) ==
    [FileSize |-> size, ModTime |-> mtime, LocalHash |-> lhash, RemoteHash |-> rhash]

Abs(n) == IF n < 0 THEN -n ELSE n

\* ------------------------------------------------------- the diff decider

\* diff.go isSameFileFuzzy
isSameFileFuzzy(l, r, encrypted) ==
    LET expectedRemoteSize == IF encrypted THEN l.Size + EncryptedOverhead ELSE l.Size
    IN  r.Size = expectedRemoteSize

\* isLocalSameAsBase with a difference of exactly two seconds counted as unchanged.
isLocalSameAsBaseInclusive(l, b) ==
    IF l.Hash # NoHash /\ b.LocalHash # NoHash
    THEN l.Hash = b.LocalHash
    ELSE IF l.Size # b.FileSize
         THEN FALSE
         ELSE Abs(l.ModTime - b.ModTime) <= MTimeTolerance

\* diff.go isLocalSameAsBase
isLocalSameAsBase(l, b) ==
    IF l.Hash # NoHash /\ b.LocalHash # NoHash
    THEN l.Hash = b.LocalHash
    ELSE IF l.Size # b.FileSize
         THEN FALSE
         ELSE Abs(l.ModTime - b.ModTime) < MTimeTolerance

\* isRemoteSameAsBase that also wants the remote time to be the recorded one.
isRemoteSameAsBaseWithTime(r, b, encrypted) ==
    /\ r.ModTime = b.ModTime
    /\ IF r.RemoteHash # NoHash /\ b.RemoteHash # NoHash
       THEN r.RemoteHash = b.RemoteHash
       ELSE r.Size = b.FileSize + (IF encrypted THEN EncryptedOverhead ELSE 0)

\* diff.go isRemoteSameAsBase
isRemoteSameAsBase(r, b, encrypted) ==
    IF r.RemoteHash # NoHash /\ b.RemoteHash # NoHash
    THEN r.RemoteHash = b.RemoteHash
    ELSE LET expectedSize == IF encrypted THEN b.FileSize + EncryptedOverhead ELSE b.FileSize
         IN  r.Size = expectedSize

\* compareNoBase with the encryption overhead left out of the size match.
compareNoBasePlainSize(local, remote, encrypted) ==
    IF local # Nil /\ remote = Nil THEN OpUpload
    ELSE IF local = Nil /\ remote # Nil THEN OpDownload
    ELSE IF local # Nil /\ remote # Nil THEN
        IF remote.Size = local.Size THEN OpIgnore ELSE OpConflict
    ELSE OpIgnore

\* compareNoBase taking a file that is on one side only for deleted on the other.
compareNoBaseDeleting(local, remote, encrypted) ==
    IF local # Nil /\ remote = Nil THEN OpDeleteLocal
    ELSE IF local = Nil /\ remote # Nil THEN OpDeleteRemote
    ELSE IF local # Nil /\ remote # Nil THEN
        IF isSameFileFuzzy(local, remote, encrypted) THEN OpIgnore ELSE OpConflict
    ELSE OpIgnore

\* diff.go Engine.compare, rule 2: no snapshot entry (base == nil)
compareNoBase(local, remote, encrypted) ==
    IF local # Nil /\ remote = Nil THEN OpUpload
    ELSE IF local = Nil /\ remote # Nil THEN OpDownload
    ELSE IF local # Nil /\ remote # Nil THEN
        IF isSameFileFuzzy(local, remote, encrypted) THEN OpIgnore ELSE OpConflict
    ELSE OpIgnore

\* compareLocalGone deleting the remote file whatever it holds.
compareLocalGoneAlwaysDelete(remote, base, encrypted) ==
    IF remote = Nil THEN OpIgnore ELSE OpDeleteRemote

\* compareLocalGone emitting a task that cleans up an entry whose file is gone
\* on both sides.
compareLocalGoneCleaning(remote, base, encrypted) ==
    IF remote = Nil THEN OpDeleteRemote
    ELSE IF isRemoteSameAsBase(remote, base, encrypted) THEN OpDeleteRemote
    ELSE OpDownload

\* diff.go Engine.compare, rule 3: the local file is gone (local == nil, base != nil)
compareLocalGone(remote, base, encrypted) ==
    IF remote = Nil THEN OpIgnore
    ELSE IF isRemoteSameAsBase(remote, base, encrypted) THEN OpDeleteRemote
    ELSE OpDownload

\* compareRemoteGone deleting the local file whatever it holds.
compareRemoteGoneAlwaysDelete(local, base) == OpDeleteLocal

\* compareRemoteGone with its two answers exchanged.
compareRemoteGoneSwapped(local, base) ==
    IF isLocalSameAsBase(local, base) THEN OpUpload ELSE OpDeleteLocal

\* diff.go Engine.compare, rule 4: the remote file is gone (remote == nil)
compareRemoteGone(local, base) ==
    IF isLocalSameAsBase(local, base) THEN OpDeleteLocal ELSE OpUpload

\* compareBoth with Upload and Download exchanged.
compareBothSwapped(local, remote, base, encrypted) ==
    LET localChanged == ~isLocalSameAsBase(local, base)
        remoteChanged == ~isRemoteSameAsBase(remote, base, encrypted)
    IN  IF ~localChanged /\ ~remoteChanged THEN OpIgnore
        ELSE IF localChanged /\ ~remoteChanged THEN OpDownload
        ELSE IF ~localChanged /\ remoteChanged THEN OpUpload
        ELSE OpConflict

\* diff.go Engine.compare, rule 5: both sides and the base exist
compareBoth(local, remote, base, encrypted) ==
    LET localChanged == ~isLocalSameAsBase(local, base)
        remoteChanged == ~isRemoteSameAsBase(remote, base, encrypted)
    IN  IF ~localChanged /\ ~remoteChanged THEN OpIgnore
        ELSE IF localChanged /\ ~remoteChanged THEN OpUpload
        ELSE IF ~localChanged /\ remoteChanged THEN OpDownload
        ELSE OpConflict

\* compare with the directory rule tried last, for absent bases only.
compareDirRuleLast(local, remote, base, encrypted) ==
    IF base # Nil /\ local = Nil THEN compareLocalGone(remote, base, encrypted)
    ELSE IF base # Nil /\ remote = Nil THEN compareRemoteGone(local, base)
    ELSE IF (local # Nil /\ local.IsDir) \/ (remote # Nil /\ remote.IsDir) THEN OpIgnore
    ELSE IF base = Nil THEN compareNoBase(local, remote, encrypted)
    ELSE compareBoth(local, remote, base, encrypted)

\* diff.go Engine.compare (encrypted is len(e.opts.EncryptKey) > 0)
compare(local, remote, base, encrypted) ==
    IF (local # Nil /\ local.IsDir) \/ (remote # Nil /\ remote.IsDir) THEN OpIgnore
    ELSE IF base = Nil THEN compareNoBase(local, remote, encrypted)
    ELSE IF local = Nil THEN compareLocalGone(remote, base, encrypted)
    ELSE IF remote = Nil THEN compareRemoteGone(local, base)
    ELSE compareBoth(local, remote, base, encrypted)

\* ------------------------------------------------------ maps and bytes

\* A Go map lookup that yields nil for a missing key.
Lookup(m, k) == IF k \in DOMAIN m THEN m[k] ELSE Nil

\* m with key k set to v.
MapPut(m, k, v) == [x \in DOMAIN m \cup {k} |-> IF x = k THEN v ELSE m[x]]

\* m without key k.
MapDel(m, k) == [x \in DOMAIN m \ {k} |-> m[x]]

EmptyMap == [x \in {} |-> Nil]

\* The values of a byte.
Bytes == {0, 1}

\* crypto/md5 as an injective digest that is never the empty string.
MD5(data) == <<Len(data)>> \o data

\* ------------------------------------------------------ the stream cipher

\* utils.go: aes.BlockSize, the length of the IV
IVSize == 16

\* The IVs crypto/rand may produce.
IVs == {[i \in 1..IVSize |-> b] : b \in Bytes}

\* Byte i of the CTR key stream under the fixed key and the given IV.
KeyStream(iv, i) == (iv[1] + i) % 2

XorStream(iv, data) == [i \in 1..Len(data) |-> (data[i] + KeyStream(iv, i)) % 2]

\* utils.go NewEncryptReader, read to the end: the IV, then the CTR stream.
EncryptBytes(plain, iv) == iv \o XorStream(iv, plain)

\* utils.go NewDecryptReader: io.ReadFull of the IV fails on a short stream.
CanDecrypt(data) == Len(data) >= IVSize

\* utils.go NewDecryptReader, read to the end.
DecryptBytes(data) ==
    XorStream(SubSeq(data, 1, IVSize), SubSeq(data, IVSize + 1, Len(data)))

\* ------------------------------------------------------ the two ports

LFile(data, mtime) == [IsDir |-> FALSE, Data |-> data, ModTime |-> mtime]
LDir == [IsDir |-> TRUE, Data |-> <<>>, ModTime |-> 0]
RFile(data, mtime) == [Data |-> data, ModTime |-> mtime]

\* local Adapter.ListAll: no hash is computed in the scan.
LocalListAll(tree) ==
    [p \in DOMAIN tree |->
        FileMeta(Len(tree[p].Data), tree[p].ModTime, tree[p].IsDir, NoHash, NoHash)]

\* local Adapter.Stat: the MD5 of a file is computed, a directory has none.
LocalStat(tree, p) ==
    FileMeta(Len(tree[p].Data), tree[p].ModTime, tree[p].IsDir,
             IF tree[p].IsDir THEN NoHash ELSE MD5(tree[p].Data), NoHash)

\* baidu Adapter.ListAll and Adapter.Stat: files only, with the store's MD5.
RemoteMeta(f) == FileMeta(Len(f.Data), f.ModTime, FALSE, NoHash, MD5(f.Data))

RemoteListAll(tree) == [p \in DOMAIN tree |-> RemoteMeta(tree[p])]

\* local Adapter.Rename (os.Rename): the file replaces a file at the new name.
LocalRenamed(tree, old, new) == MapPut(MapDel(tree, old), new, tree[old])

\* baidu Adapter.Rename: the file gets the new name.
RemoteRenamed(tree, old, new) == MapPut(MapDel(tree, old), new, tree[old])

\* ------------------------------------------------------ the snapshot store

\* A Put whose write is lost.
DbPutLost(db, path, state) == db

\* DB.Put that returned nil.
DbPut(db, path, state) == MapPut(db, path, state)

\* A failed Put that leaves the entry written all the same.
DbPutTorn(db, path, state) == MapPut(db, path, state)

\* DB.Put that returned an error: bbolt rolls the transaction back.
DbPutFailed(db, path, state) == db

\* DB.Delete that returned nil: an absent key is no error.
DbDelete(db, path) == MapDel(db, path)

\* DB.ListAll
DbListAll(db) == db

\* ------------------------------------------------------ the engine's options

StrategyRenameLocal == "RenameLocal"
StrategyRenameRemote == "RenameRemote"
StrategyKeepNewest == "KeepNewest"
StrategyForceUpload == "ForceUpload"
StrategyForceDownload == "ForceDownload"

Strategies ==
    {StrategyRenameLocal, StrategyRenameRemote, StrategyKeepNewest,
     StrategyForceUpload, StrategyForceDownload}

\* engine.go NewEngine: the default pool size
DefaultMaxWorkers == 3

\* NewEngine taking the configured pool size as it is.
NewEngineNoDefault(o) == o

\* engine.go NewEngine
NewEngine(o) ==
    IF o.MaxWorkers <= 0 THEN [o EXCEPT !.MaxWorkers = DefaultMaxWorkers] ELSE o

\* ------------------------------------------------------ tasks and their steps

Task(op, path) == [Op |-> op, RelPath |-> path]

\* engine.go resolveConflict: the names the two rename policies move a file to
LocalConflictName(path) == path \o ".local"
RemoteConflictName(path) == path \o ".remote"

\* engine.go doUpload: the calls it makes, in order
UploadSteps == <<"OpenLocal", "WriteRemote", "StatLocal", "PutUpload">>

\* engine.go doDownload: the calls it makes, in order
DownloadSteps == <<"OpenRemote", "StatRemote", "WriteLocal", "StatLocal", "PutDownload">>

\* The snapshot entry deleted before the remote file.
DeleteRemoteStepsEntryFirst == <<"DbDelete", "DeleteRemote">>

\* engine.go processTask, case OpDeleteRemote
DeleteRemoteSteps == <<"DeleteRemote", "DbDelete">>

\* The snapshot entry deleted before the local file.
DeleteLocalStepsEntryFirst == <<"DbDelete", "DeleteLocal">>

\* engine.go processTask, case OpDeleteLocal
DeleteLocalSteps == <<"DeleteLocal", "DbDelete">>

\* A resolver that transfers first and makes room afterwards.
ConflictStepsTransferFirst(strategy) ==
    CASE strategy = StrategyRenameLocal -> DownloadSteps \o <<"RenameLocal">>
      [] strategy = StrategyRenameRemote -> UploadSteps \o <<"RenameRemote">>
      [] strategy = StrategyKeepNewest -> <<"StatLocal", "StatRemote", "KeepNewest">>
      [] strategy = StrategyForceUpload -> UploadSteps \o <<"DeleteRemote">>
      [] strategy = StrategyForceDownload -> DownloadSteps \o <<"DeleteLocal">>
      [] OTHER -> <<>>

\* engine.go resolveConflict: the calls of each policy, in order
ConflictSteps(strategy) ==
    CASE strategy = StrategyRenameLocal -> <<"RenameLocal">> \o DownloadSteps
      [] strategy = StrategyRenameRemote -> <<"RenameRemote">> \o UploadSteps
      [] strategy = StrategyKeepNewest -> <<"StatLocal", "StatRemote", "KeepNewest">>
      [] strategy = StrategyForceUpload -> <<"DeleteRemote">> \o UploadSteps
      [] strategy = StrategyForceDownload -> <<"DeleteLocal">> \o DownloadSteps
      [] OTHER -> <<>>

\* engine.go processTask
TaskSteps(t, strategy) ==
    CASE t.Op = OpUpload -> UploadSteps
      [] t.Op = OpDownload -> DownloadSteps
      [] t.Op = OpDeleteRemote -> DeleteRemoteSteps
      [] t.Op = OpDeleteLocal -> DeleteLocalSteps
      [] t.Op = OpConflict -> ConflictSteps(strategy)
      [] OTHER -> <<>>

\* A KeepNewest that uploads on equal times too.
KeepNewestStepsOnTie(localMeta, remoteMeta) ==
    IF localMeta.ModTime >= remoteMeta.ModTime THEN UploadSteps ELSE DownloadSteps

\* engine.go resolveConflict, case StrategyKeepNewest: the transfer it goes on with
KeepNewestSteps(localMeta, remoteMeta) ==
    IF localMeta.ModTime > remoteMeta.ModTime THEN UploadSteps ELSE DownloadSteps

\* A worker goroutine of Run.  st is "off" (not started), "exit" (returned on
\* cancellation), "send" (in a send to errChan that found it full) or "loop" (at the range
\* over taskChan, or inside the task while todo is not empty).  task
\* and res are the task it took last and how that ended; pre is the snapshot
\* entry of the task's path when the task was taken; had is what the files of
\* both sides held when a Conflict task was taken; the other fields are the
\* locals of doUpload, doDownload and resolveConflict.
WorkerOff ==
    [st |-> "off", task |-> Nil, todo |-> <<>>, res |-> "none", pre |-> Nil, had |-> {},
     stream |-> Nil, stat |-> Nil, remoteMeta |-> Nil, cloudMD5 |-> NoHash,
     localMD5 |-> NoHash]

WorkerIds == 1..opts.MaxWorkers

\* The worker is inside a task.
Busy(w) == workers[w].todo # <<>>

\* The worker's record after the call at the head of todo returned nil: the
\* task goes on with the next call, or returns nil.
Advance(rec) ==
    LET rest == Tail(rec.todo)
        next == IF rest # <<>> /\ Head(rest) = "KeepNewest"
                THEN KeepNewestSteps(rec.stat, rec.remoteMeta)
                ELSE rest
    IN  IF next = <<>>
        THEN [WorkerOff EXCEPT !.st = "loop", !.task = rec.task, !.res = "ok",
                               !.pre = rec.pre, !.had = rec.had]
        ELSE [rec EXCEPT !.todo = next]

\* A worker that returns when a task of its failed.
FailedStopsWorker(rec) ==
    [WorkerOff EXCEPT !.st = "exit", !.task = rec.task, !.res = "err", !.pre = rec.pre]

\* A task that goes on with its next call after a call returned an error.
FailedGoesOn(rec) ==
    IF Len(rec.todo) > 1
    THEN [rec EXCEPT !.todo = Tail(@), !.res = "err"]
    ELSE [WorkerOff EXCEPT !.st = "loop", !.task = rec.task, !.res = "err",
                           !.pre = rec.pre]

\* The worker's record after a call of the task returned an error: the error
\* is sent to errChan and the worker's range goes on.
Failed(rec) ==
    [WorkerOff EXCEPT !.st = "loop", !.task = rec.task, !.res = "err", !.pre = rec.pre]

\* What a Run has done: the tasks that returned an error, the paths whose local
\* or remote entry a task changed, whether a conflict rename was made, the
\* number of tasks emitted, and whether a call of a port or of the store failed;
\* and the paths another process wrote locally while their upload was between
\* reading the file and the Stat that follows the transfer.
FreshRun ==
    [failed |-> {}, wrote |-> {}, renamed |-> FALSE, emitted |-> 0, portErr |-> FALSE,
     edited |-> {}]

\* The call at the head of worker w's todo returned nil.
StepOk(w, rec, changed, renamed) ==
    /\ workers' = [workers EXCEPT ![w] = Advance(rec)]
    /\ cur' = [cur EXCEPT !.wrote = @ \cup changed, !.renamed = @ \/ renamed]
    /\ errs' = errs

\* An error channel with room for one error less than there are tasks.
ErrChanOneShort(n) == n - 1

\* engine.go Run: errChan := make(chan error, len(tasks))
ErrChanCap(n) == n

\* The worker's record when its send to errChan finds the channel full: nothing
\* receives before wg.Wait has returned, the worker stays in the send.
Blocked(rec) ==
    [WorkerOff EXCEPT !.st = "send", !.task = rec.task, !.res = "err", !.pre = rec.pre]

\* engine.go Run, errChan <- err: the send goes through while the channel has
\* room.
SendErr(w) ==
    IF errs < ErrChanCap(cur.emitted)
    THEN /\ workers' = [workers EXCEPT ![w] = Failed(workers[w])]
         /\ errs' = errs + 1
    ELSE /\ workers' = [workers EXCEPT ![w] = Blocked(workers[w])]
         /\ errs' = errs

\* The call at the head of worker w's todo, a call of a port or of the store,
\* returned an error: processTask returns it and the worker sends it to errChan.
StepErr(w, changed) ==
    /\ SendErr(w)
    /\ cur' = [cur EXCEPT !.wrote = @ \cup changed, !.failed = @ \cup {workers[w].task},
                          !.portErr = TRUE]

\* doDownload: crypto.NewDecryptReader returned an error.
CryptoErr(w) ==
    /\ SendErr(w)
    /\ cur' = [cur EXCEPT !.failed = @ \cup {workers[w].task}]

\* A call fails for a reason of its own (the network, the disk).
Fault == faults > 0 /\ faults' = faults - 1

\* ------------------------------------------------------ the supervisor
\* (the source of cmd/baidusync/main.go is kept in src/pkg/logger/logger.go)

\* main before its first runSync: isSyncing is false, wg counts no goroutine,
\* cancel has not been called, main has not returned.  inFlight is for the
\* record: the calls each worker's task had still to make when cancel was called.
MainStart ==
    [isSyncing |-> FALSE, wg |-> 0, cancelled |-> FALSE, exited |-> FALSE,
     inFlight |-> <<>>]

\* A swap that succeeds whatever the flag holds.
CompareAndSwapAlways(flag, old, new) == [ok |-> TRUE, val |-> new]

\* atomic.Bool.CompareAndSwap: whether it swapped, and the flag afterwards.
CompareAndSwap(flag, old, new) ==
    [ok |-> flag = old, val |-> IF flag = old THEN new ELSE flag]

\* The deferred calls of the goroutine runSync started, run when Run has
\* returned: isSyncing.Store(false), then wg.Done().
GoroutineDone(s) == [s EXCEPT !.isSyncing = FALSE, !.wg = @ - 1]

\* A wg.Wait of Run that returns as soon as one worker has exited.
WorkersDoneAny(ws, queue) ==
    \E w \in DOMAIN ws :
        ws[w].todo = <<>> /\ ws[w].st # "send" /\ (ws[w].st = "exit" \/ queue = <<>>)

\* Run's wg.Wait returns: every worker has returned, on cancellation or because
\* its range over the closed channel ended (the channel is drained and the
\* worker is in no task).
WorkersDone(ws, queue) ==
    \A w \in DOMAIN ws :
        ws[w].todo = <<>> /\ ws[w].st # "send" /\ (ws[w].st = "exit" \/ queue = <<>>)

\* ------------------------------------------------------ the initial states

\* The longest initial file content.
MaxLen == 1

\* The last second of the clock.
MaxTime == 3

\* The failures the ports and the store may produce in one behaviour.
MaxFaults == 1

RECURSIVE ByteStrings(_)
ByteStrings(n) ==
    IF n = 0 THEN {<<>>}
    ELSE LET shorter == ByteStrings(n - 1)
         IN  shorter \cup {Append(s, b) : s \in {x \in shorter : Len(x) = n - 1}, b \in Bytes}

Contents == ByteStrings(MaxLen)

\* The times of the initial state: when the local files were last modified,
\* when the remote files were stored, the time the snapshot entries record, and
\* the clock when the first Run starts.
InitTimes == [local |-> {0, 2}, remote |-> 1, base |-> 0, now |-> 2]

InitLocalTimes == InitTimes.local
InitRemoteTime == InitTimes.remote
InitBaseTime == InitTimes.base

\* The content the initial snapshot entries were written for.
InitBaseContent == <<0>>

InitNow == InitTimes.now

\* What the remote store holds of a file uploaded by the engine.
Stored(plain, encrypted) ==
    IF encrypted THEN EncryptBytes(plain, [i \in 1..IVSize |-> 0]) ELSE plain

\* The contents the initial files have.
InitContents == {c \in Contents : Len(c) = MaxLen}

InitLocalEntries ==
    {Nil, LDir} \cup {LFile(c, t) : c \in InitContents, t \in InitLocalTimes}

\* A remote file no upload of the engine wrote: with encryption on it is shorter
\* than an IV, with encryption off it is empty.
Foreign(encrypted) == IF encrypted THEN <<1>> ELSE <<>>

InitRemoteEntries(encrypted) ==
    {Nil, RFile(Foreign(encrypted), InitRemoteTime)}
        \cup {RFile(Stored(c, encrypted), InitRemoteTime) : c \in InitContents}

\* A snapshot entry as doUpload and doDownload write it, and as rebuildIndex does.
InitBaseEntries(encrypted) ==
    {Nil,
     FileState(Len(InitBaseContent), InitBaseTime, MD5(InitBaseContent),
               MD5(Stored(InitBaseContent, encrypted))),
     FileState(Len(InitBaseContent), InitBaseTime, NoHash, NoHash)}

\* The first path, and a second one that is the name a conflict rename of the
\* first moves a file to.
PathA == "a"
PathB(strategy) ==
    IF strategy = StrategyRenameRemote THEN RemoteConflictName(PathA)
    ELSE LocalConflictName(PathA)

\* The second path is absent everywhere, a new local file, or a file in sync.
InitSecond(encrypted) ==
    LET c == <<1>>
        st == FileState(Len(c), InitBaseTime, MD5(c), MD5(Stored(c, encrypted)))
    IN  {[l |-> Nil, r |-> Nil, b |-> Nil],
         [l |-> LFile(c, InitBaseTime), r |-> Nil, b |-> Nil],
         [l |-> LFile(c, InitBaseTime), r |-> RFile(Stored(c, encrypted), InitRemoteTime),
          b |-> st]}

\* The map holding the entries that are not nil.
TwoPaths(pa, a, pb, b) ==
    [p \in (IF a = Nil THEN {} ELSE {pa}) \cup (IF b = Nil THEN {} ELSE {pb}) |->
        IF p = pa THEN a ELSE b]

\* No port and no store call has been made on its own.
PortUnused ==
    [bucket |-> [x \in {} |-> Nil], start |-> [x \in {} |-> Nil], calls |-> <<>>,
     ret |-> Nil]

CmpUnused == [l |-> Nil, r |-> Nil, b |-> Nil, enc |-> FALSE, op |-> "unused"]

\* The pool sizes the configuration may ask for.
ConfiguredWorkers == {2}

InitEngine ==
    /\ cmp = CmpUnused
    /\ port = PortUnused
    /\ \E k \in BOOLEAN, n \in ConfiguredWorkers, s \in Strategies :
          opts = NewEngine([EncryptKey |-> k, MaxWorkers |-> n, ConflictStrategy |-> s])
    /\ \E la \in InitLocalEntries, ra \in InitRemoteEntries(opts.EncryptKey),
          ba \in InitBaseEntries(opts.EncryptKey), second \in InitSecond(opts.EncryptKey) :
          LET pb == PathB(opts.ConflictStrategy)
          IN  /\ localFS = TwoPaths(PathA, la, pb, second.l)
              /\ remoteFS = TwoPaths(PathA, ra, pb, second.r)
              /\ stateDB = TwoPaths(PathA, ba, pb, second.b)
    /\ sup = MainStart
    /\ now = InitNow
    /\ faults = MaxFaults
    /\ pc = "idle"
    /\ localMap = EmptyMap
    /\ remoteMap = EmptyMap
    /\ baseMap = EmptyMap
    /\ allPaths = {}
    /\ tasks = <<>>
    /\ workers = [w \in WorkerIds |-> WorkerOff]
    /\ errs = 0
    /\ ops = EmptyMap
    /\ cur = FreshRun
    /\ lastRun = FreshRun @@ [result |-> "none"]

\* ------------------------------------------------------ Run: scan and decide

scanVars == <<localMap, remoteMap, baseMap>>
treeVars == <<localFS, remoteFS>>
poolVars == <<workers, errs, cur>>

\* Run returns: what it did and returned is kept, and it is ready to run again.
Return(result) ==
    /\ pc' = "idle"
    /\ lastRun' = cur @@ [result |-> result]
    /\ sup' = GoroutineDone(sup)

\* main runSync, called at the start and on every tick while main is in its
\* select loop: a trigger during a cycle is logged and dropped, any other
\* starts the goroutine that calls engine.Run.
runSync ==
    /\ ~sup.cancelled
    /\ LET cas == CompareAndSwap(sup.isSyncing, FALSE, TRUE)
       IN  IF ~cas.ok
           THEN UNCHANGED <<sup, pc>>
           ELSE /\ sup' = [sup EXCEPT !.isSyncing = cas.val, !.wg = @ + 1]
                /\ pc' = "run"
    /\ UNCHANGED <<cmp, opts, port, treeVars, stateDB, now, faults, scanVars, allPaths,
                   tasks, poolVars, ops, cur, lastRun>>

\* main, case <-sigChan: cancel() is called and main waits in wg.Wait().
Signal ==
    /\ ~sup.cancelled
    /\ sup' = [sup EXCEPT !.cancelled = TRUE]
    /\ UNCHANGED <<cmp, opts, port, treeVars, stateDB, now, faults, pc, scanVars, allPaths,
                   tasks, poolVars, ops, cur, lastRun>>

\* The same, with the calls each task in flight has still to make put on record.
SignalTraced ==
    /\ ~sup.cancelled
    /\ sup' = [sup EXCEPT !.cancelled = TRUE,
                          !.inFlight = [w \in WorkerIds |-> workers[w].todo]]
    /\ UNCHANGED <<cmp, opts, port, treeVars, stateDB, now, faults, pc, scanVars, allPaths,
                   tasks, poolVars, ops, cur, lastRun>>

\* main: wg.Wait() returns and main returns.
Exit ==
    /\ sup.cancelled
    /\ ~sup.exited
    /\ sup.wg = 0
    /\ sup' = [sup EXCEPT !.exited = TRUE]
    /\ UNCHANGED <<cmp, opts, port, treeVars, stateDB, now, faults, pc, scanVars, allPaths,
                   tasks, poolVars, ops, cur, lastRun>>

\* A Run that goes on with the part of the remote listing that succeeded.
ScanIgnoringErrors ==
    /\ pc = "run"
    /\ localMap' = LocalListAll(localFS)
    /\ baseMap' = DbListAll(stateDB)
    /\ \/ /\ remoteMap' = RemoteListAll(remoteFS)
          /\ UNCHANGED faults
       \/ /\ Fault
          /\ remoteMap' = EmptyMap
    /\ allPaths' = DOMAIN localMap' \cup DOMAIN remoteMap' \cup DOMAIN baseMap'
    /\ pc' = "diff"
    /\ tasks' = <<>>
    /\ ops' = EmptyMap
    /\ cur' = FreshRun
    /\ UNCHANGED <<cmp, opts, port, sup, treeVars, stateDB, now, workers, errs, lastRun>>

\* engine.go Run, step 1: the three listings and g.Wait.  Any listing may fail
\* (the remote one also when only some directories could not be listed), and
\* Run then returns the error.
Scan ==
    /\ pc = "run"
    /\ \/ /\ localMap' = LocalListAll(localFS)
          /\ remoteMap' = RemoteListAll(remoteFS)
          /\ baseMap' = DbListAll(stateDB)
          /\ allPaths' = DOMAIN localFS \cup DOMAIN remoteFS \cup DOMAIN stateDB
          /\ pc' = "diff"
          /\ tasks' = <<>>
          /\ ops' = EmptyMap
          /\ cur' = FreshRun
          /\ UNCHANGED <<faults, lastRun, sup>>
       \/ /\ Fault
          /\ pc' = "idle"
          /\ sup' = GoroutineDone(sup)
          /\ lastRun' = [FreshRun EXCEPT !.portErr = TRUE] @@ [result |-> "err"]
          /\ cur' = FreshRun
          /\ UNCHANGED <<scanVars, allPaths, tasks, ops>>
    /\ UNCHANGED <<cmp, opts, port, treeVars, stateDB, now, workers, errs>>

\* A rebuilt entry that does not record the local modification time.
RebuiltStateNoTime(l) == FileState(l.Size, 0, l.Hash, l.Hash)

\* engine.go rebuildIndex: the entry it writes
RebuiltState(l) == FileState(l.Size, l.ModTime, l.Hash, l.Hash)

\* engine.go Run, step 2: one round of the loop over allPaths (a Go map is
\* ranged over in any order), with rebuildIndex, whose Put may fail unnoticed.
DecidePath(path) ==
    /\ pc = "diff"
    /\ path \in allPaths
    /\ allPaths' = allPaths \ {path}
    /\ LET l == Lookup(localMap, path)
           r == Lookup(remoteMap, path)
           b == Lookup(baseMap, path)
           op == compare(l, r, b, opts.EncryptKey)
       IN  /\ ops' = MapPut(ops, path, op)
           /\ IF op # OpIgnore
              THEN /\ tasks' = Append(tasks, Task(op, path))
                   /\ cur' = [cur EXCEPT !.emitted = @ + 1]
                   /\ UNCHANGED <<stateDB, faults>>
              ELSE /\ UNCHANGED tasks
                   /\ IF b = Nil /\ l # Nil /\ r # Nil
                      THEN \/ /\ stateDB' = DbPut(stateDB, path, RebuiltState(l))
                              /\ UNCHANGED <<faults, cur>>
                           \/ /\ Fault
                              /\ stateDB' = DbPutFailed(stateDB, path, RebuiltState(l))
                              /\ cur' = [cur EXCEPT !.portErr = TRUE]
                      ELSE UNCHANGED <<stateDB, faults, cur>>
    /\ UNCHANGED <<cmp, opts, port, sup, treeVars, now, pc, scanVars, workers, errs, lastRun>>

\* engine.go Run: len(tasks) == 0, return nil
NoTasks ==
    /\ pc = "diff"
    /\ allPaths = {}
    /\ tasks = <<>>
    /\ Return("nil")
    /\ UNCHANGED <<cmp, opts, port, treeVars, stateDB, now, faults, scanVars, allPaths,
                   tasks, poolVars, ops>>

\* engine.go Run, step 3: taskChan is filled and closed, the workers are started.
StartWorkers ==
    /\ pc = "diff"
    /\ allPaths = {}
    /\ tasks # <<>>
    /\ pc' = "work"
    /\ workers' = [w \in WorkerIds |-> [WorkerOff EXCEPT !.st = "loop"]]
    /\ errs' = 0
    /\ UNCHANGED <<cmp, opts, port, sup, treeVars, stateDB, now, faults, scanVars, allPaths,
                   tasks, ops, cur, lastRun>>

\* The worker's record when it has returned on <-ctx.Done().
Cancelled(rec) == [rec EXCEPT !.st = "exit"]

\* What the files of the two sides hold: the bytes of a local file, and of a
\* remote file the plaintext when encryption is on and the file has an IV.
FileContents(local, remote, encrypted) ==
    {<<"plain", local[p].Data>> : p \in {q \in DOMAIN local : ~local[q].IsDir}}
        \cup {IF ~encrypted THEN <<"plain", remote[p].Data>>
              ELSE IF CanDecrypt(remote[p].Data)
                   THEN <<"plain", DecryptBytes(remote[p].Data)>>
                   ELSE <<"stored", remote[p].Data>> : p \in DOMAIN remote}

\* A worker that starts the task it received without looking at the context.
DequeueIgnoringCancel(w) ==
    /\ pc = "work"
    /\ workers[w].st = "loop"
    /\ ~Busy(w)
    /\ tasks # <<>>
    /\ tasks' = Tail(tasks)
    /\ workers' = [workers EXCEPT ![w] =
           [WorkerOff EXCEPT !.st = "loop", !.task = Head(tasks),
                             !.todo = TaskSteps(Head(tasks), opts.ConflictStrategy),
                             !.pre = Lookup(stateDB, Head(tasks).RelPath)]]
    /\ UNCHANGED <<cmp, opts, port, sup, treeVars, stateDB, now, faults, pc, scanVars, allPaths,
                   errs, ops, cur, lastRun>>

\* engine.go Run, one round of a worker's loop up to the call of processTask:
\* the worker receives the next task from taskChan, returns if the context is
\* done, and otherwise starts the task.
Dequeue(w) ==
    /\ pc = "work"
    /\ workers[w].st = "loop"
    /\ ~Busy(w)
    /\ tasks # <<>>
    /\ tasks' = Tail(tasks)
    /\ workers' = [workers EXCEPT ![w] =
           IF sup.cancelled
           THEN Cancelled(workers[w])
           ELSE [WorkerOff EXCEPT !.st = "loop", !.task = Head(tasks),
                                  !.todo = TaskSteps(Head(tasks), opts.ConflictStrategy),
                                  !.pre = Lookup(stateDB, Head(tasks).RelPath),
                                  !.had = IF Head(tasks).Op = OpConflict
                                          THEN FileContents(localFS, remoteFS,
                                                            opts.EncryptKey)
                                          ELSE {}]]
    /\ UNCHANGED <<cmp, opts, port, sup, treeVars, stateDB, now, faults, pc, scanVars, allPaths,
                   errs, ops, cur, lastRun>>

\* A Run that returns when one worker has left its loop, the others still
\* running.
FinishWithoutWaiting ==
    /\ pc = "work"
    /\ WorkersDoneAny(workers, tasks)
    /\ Return(IF errs > 0 THEN "err" ELSE "nil")
    /\ UNCHANGED <<cmp, opts, port, treeVars, stateDB, now, faults, scanVars, allPaths,
                   tasks, workers, errs, ops, cur>>

\* engine.go Run: wg.Wait returns, the errors are collected, Run returns.
Finish ==
    /\ pc = "work"
    /\ WorkersDone(workers, tasks)
    /\ Return(IF errs > 0 THEN "err" ELSE "nil")
    /\ workers' = [w \in WorkerIds |-> WorkerOff]
    /\ UNCHANGED <<cmp, opts, port, treeVars, stateDB, now, faults, scanVars, allPaths,
                   tasks, errs, ops, cur>>

\* ------------------------------------------------------ the calls of a task

\* Worker w is about to make the call named step.
At(w, step) == pc = "work" /\ Busy(w) /\ Head(workers[w].todo) = step

PathOf(w) == workers[w].task.RelPath

\* doUpload 1: LocalFS.OpenStream (os.Open); the file must exist.
OpenLocal(w) ==
    /\ At(w, "OpenLocal")
    /\ \/ /\ PathOf(w) \in DOMAIN localFS
          /\ StepOk(w, [workers[w] EXCEPT !.stream = localFS[PathOf(w)]], {}, FALSE)
          /\ UNCHANGED faults
       \/ /\ PathOf(w) \notin DOMAIN localFS
          /\ StepErr(w, {})
          /\ UNCHANGED faults
       \/ /\ Fault
          /\ StepErr(w, {})
    /\ UNCHANGED <<cmp, opts, port, sup, treeVars, stateDB, now, pc, scanVars, allPaths, tasks,
                   ops, lastRun>>

\* doUpload 2-3: the stream is encrypted under a fresh IV when a key is set and
\* written to the remote, which stamps it with its own time and returns the MD5
\* of the bytes it received.  An upload fails before the remote creates the
\* file, or after it (the answer to the create request is lost or fails the
\* size check).
WriteRemote(w) ==
    /\ At(w, "WriteRemote")
    /\ \/ /\ ~workers[w].stream.IsDir
          /\ \E iv \in IVs, t \in now..MaxTime :
                LET data == IF opts.EncryptKey
                            THEN EncryptBytes(workers[w].stream.Data, iv)
                            ELSE workers[w].stream.Data
                IN  /\ ~opts.EncryptKey => iv = CHOOSE x \in IVs : TRUE
                    /\ remoteFS' = MapPut(remoteFS, PathOf(w), RFile(data, t))
                    /\ now' = t
                    /\ \/ /\ StepOk(w, [workers[w] EXCEPT !.cloudMD5 = MD5(data)],
                                    {PathOf(w)}, FALSE)
                          /\ UNCHANGED faults
                       \/ /\ Fault
                          /\ StepErr(w, {PathOf(w)})
       \/ /\ workers[w].stream.IsDir
          /\ StepErr(w, {})
          /\ UNCHANGED <<remoteFS, now, faults>>
       \/ /\ Fault
          /\ StepErr(w, {})
          /\ UNCHANGED <<remoteFS, now>>
    /\ UNCHANGED <<cmp, opts, port, sup, localFS, stateDB, pc, scanVars, allPaths, tasks, ops,
                   lastRun>>

\* doUpload 4, doDownload 5 and resolveConflict (KeepNewest): LocalFS.Stat.
StatLocal(w) ==
    /\ At(w, "StatLocal")
    /\ \/ /\ PathOf(w) \in DOMAIN localFS
          /\ StepOk(w, [workers[w] EXCEPT !.stat = LocalStat(localFS, PathOf(w))],
                    {}, FALSE)
          /\ UNCHANGED faults
       \/ /\ PathOf(w) \notin DOMAIN localFS
          /\ StepErr(w, {})
          /\ UNCHANGED faults
       \/ /\ Fault
          /\ StepErr(w, {})
    /\ UNCHANGED <<cmp, opts, port, sup, treeVars, stateDB, now, pc, scanVars, allPaths, tasks,
                   ops, lastRun>>

\* newState with the hash of the local file recorded as the remote hash too.
UploadStateLocalHashTwice(stat, cloudMD5) ==
    FileState(stat.Size, stat.ModTime, stat.Hash, stat.Hash)

\* engine.go doUpload: newState
UploadState(stat, cloudMD5) == FileState(stat.Size, stat.ModTime, stat.Hash, cloudMD5)

\* engine.go doDownload: newState
DownloadState(localStat, localMD5, remoteMeta) ==
    FileState(localStat.Size, localStat.ModTime, localMD5, remoteMeta.RemoteHash)

\* StateDB.Put of a task's newState.
PutState(w, state) ==
    /\ \/ /\ stateDB' = DbPut(stateDB, PathOf(w), state)
          /\ StepOk(w, workers[w], {}, FALSE)
          /\ UNCHANGED faults
       \/ /\ Fault
          /\ stateDB' = DbPutFailed(stateDB, PathOf(w), state)
          /\ StepErr(w, {})
    /\ UNCHANGED <<cmp, opts, port, sup, treeVars, now, pc, scanVars, allPaths, tasks, ops, lastRun>>

\* doUpload 5: StateDB.Put
PutUpload(w) ==
    /\ At(w, "PutUpload")
    /\ PutState(w, UploadState(workers[w].stat, workers[w].cloudMD5))

\* doDownload 5: StateDB.Put
PutDownload(w) ==
    /\ At(w, "PutDownload")
    /\ PutState(w, DownloadState(workers[w].stat, workers[w].localMD5,
                                 workers[w].remoteMeta))

\* doDownload 1-2: RemoteFS.OpenStream, and NewDecryptReader when a key is set,
\* which reads the IV and fails on a stream shorter than one.
OpenRemote(w) ==
    /\ At(w, "OpenRemote")
    /\ \/ /\ PathOf(w) \in DOMAIN remoteFS
          /\ LET data == remoteFS[PathOf(w)].Data
             IN  IF opts.EncryptKey /\ ~CanDecrypt(data)
                 THEN CryptoErr(w)
                 ELSE StepOk(w, [workers[w] EXCEPT !.stream =
                                    IF opts.EncryptKey THEN DecryptBytes(data) ELSE data],
                             {}, FALSE)
          /\ UNCHANGED faults
       \/ /\ PathOf(w) \notin DOMAIN remoteFS
          /\ StepErr(w, {})
          /\ UNCHANGED faults
       \/ /\ Fault
          /\ StepErr(w, {})
    /\ UNCHANGED <<cmp, opts, port, sup, treeVars, stateDB, now, pc, scanVars, allPaths, tasks,
                   ops, lastRun>>

\* doDownload 3 and resolveConflict (KeepNewest): RemoteFS.Stat.
StatRemote(w) ==
    /\ At(w, "StatRemote")
    /\ \/ /\ PathOf(w) \in DOMAIN remoteFS
          /\ StepOk(w, [workers[w] EXCEPT !.remoteMeta = RemoteMeta(remoteFS[PathOf(w)])],
                    {}, FALSE)
          /\ UNCHANGED faults
       \/ /\ PathOf(w) \notin DOMAIN remoteFS
          /\ StepErr(w, {})
          /\ UNCHANGED faults
       \/ /\ Fault
          /\ StepErr(w, {})
    /\ UNCHANGED <<cmp, opts, port, sup, treeVars, stateDB, now, pc, scanVars, allPaths, tasks,
                   ops, lastRun>>

\* doDownload 4: LocalFS.WriteStream.  os.Create fails on a directory; the file
\* is truncated, the stream copied, the time set to the remote's, the MD5 of the
\* file computed.  A failure after os.Create leaves what was copied so far, with
\* the time of the write.
WriteLocal(w) ==
    /\ At(w, "WriteLocal")
    /\ LET p == PathOf(w)
           isDir == p \in DOMAIN localFS /\ localFS[p].IsDir
       IN  \/ /\ ~isDir
              /\ localFS' = MapPut(localFS, p,
                                   LFile(workers[w].stream, workers[w].remoteMeta.ModTime))
              /\ StepOk(w, [workers[w] EXCEPT !.localMD5 = MD5(workers[w].stream)],
                        {p}, FALSE)
              /\ UNCHANGED <<now, faults>>
           \/ /\ isDir
              /\ StepErr(w, {})
              /\ UNCHANGED <<localFS, now, faults>>
           \/ /\ Fault
              /\ StepErr(w, {})
              /\ UNCHANGED <<localFS, now>>
           \/ /\ ~isDir
              /\ Fault
              /\ \E k \in 0..Len(workers[w].stream), t \in now..MaxTime :
                    /\ localFS' = MapPut(localFS, p,
                                         LFile(SubSeq(workers[w].stream, 1, k), t))
                    /\ now' = t
              /\ StepErr(w, {p})
    /\ UNCHANGED <<cmp, opts, port, sup, remoteFS, stateDB, pc, scanVars, allPaths, tasks, ops,
                   lastRun>>

\* processTask (OpDeleteRemote) and resolveConflict (ForceUpload):
\* RemoteFS.Delete.  What the remote API answers for a missing path is not
\* fixed by the client: either answer is possible.  The answer to a request
\* the remote carried out may be lost.
DeleteRemote(w) ==
    /\ At(w, "DeleteRemote")
    /\ \/ /\ PathOf(w) \in DOMAIN remoteFS
          /\ remoteFS' = MapDel(remoteFS, PathOf(w))
          /\ \/ /\ StepOk(w, workers[w], {PathOf(w)}, FALSE)
                /\ UNCHANGED faults
             \/ /\ Fault
                /\ StepErr(w, {PathOf(w)})
       \/ /\ PathOf(w) \notin DOMAIN remoteFS
          /\ \/ StepOk(w, workers[w], {}, FALSE)
             \/ StepErr(w, {})
          /\ UNCHANGED <<remoteFS, faults>>
       \/ /\ Fault
          /\ StepErr(w, {})
          /\ UNCHANGED remoteFS
    /\ UNCHANGED <<cmp, opts, port, sup, localFS, stateDB, now, pc, scanVars, allPaths, tasks,
                   ops, lastRun>>

\* processTask (OpDeleteLocal) and resolveConflict (ForceDownload):
\* LocalFS.Delete (os.RemoveAll, which returns nil for a missing path).
DeleteLocal(w) ==
    /\ At(w, "DeleteLocal")
    /\ \/ /\ localFS' = MapDel(localFS, PathOf(w))
          /\ StepOk(w, workers[w],
                    IF PathOf(w) \in DOMAIN localFS THEN {PathOf(w)} ELSE {}, FALSE)
          /\ UNCHANGED faults
       \/ /\ Fault
          /\ StepErr(w, {})
          /\ UNCHANGED localFS
    /\ UNCHANGED <<cmp, opts, port, sup, remoteFS, stateDB, now, pc, scanVars, allPaths, tasks,
                   ops, lastRun>>

\* processTask (OpDeleteRemote, OpDeleteLocal): StateDB.Delete
DbDeleteEntry(w) ==
    /\ At(w, "DbDelete")
    /\ \/ /\ stateDB' = DbDelete(stateDB, PathOf(w))
          /\ StepOk(w, workers[w], {}, FALSE)
          /\ UNCHANGED faults
       \/ /\ Fault
          /\ StepErr(w, {})
          /\ UNCHANGED stateDB
    /\ UNCHANGED <<cmp, opts, port, sup, treeVars, now, pc, scanVars, allPaths, tasks, ops, lastRun>>

\* resolveConflict (RenameLocal): LocalFS.Rename (os.Rename).  The file must
\* exist and the new name must not be a directory; a file there is replaced.
RenameLocal(w) ==
    /\ At(w, "RenameLocal")
    /\ LET old == PathOf(w)
           new == LocalConflictName(old)
           can == /\ old \in DOMAIN localFS
                  /\ ~(new \in DOMAIN localFS /\ localFS[new].IsDir)
       IN  \/ /\ can
              /\ localFS' = LocalRenamed(localFS, old, new)
              /\ StepOk(w, workers[w], {old, new}, TRUE)
              /\ UNCHANGED faults
           \/ /\ ~can
              /\ StepErr(w, {})
              /\ UNCHANGED <<localFS, faults>>
           \/ /\ Fault
              /\ StepErr(w, {})
              /\ UNCHANGED localFS
    /\ UNCHANGED <<cmp, opts, port, sup, remoteFS, stateDB, now, pc, scanVars, allPaths, tasks,
                   ops, lastRun>>

\* resolveConflict (RenameRemote): RemoteFS.Rename.  The file must exist.  The
\* request does not say what to do with a name that is taken: the remote may
\* refuse it or replace the file there.  The answer to a request the remote
\* carried out may be lost.
RenameRemote(w) ==
    /\ At(w, "RenameRemote")
    /\ LET old == PathOf(w)
           new == RemoteConflictName(old)
           can == old \in DOMAIN remoteFS
           taken == new \in DOMAIN remoteFS
       IN  \/ /\ can
              /\ remoteFS' = RemoteRenamed(remoteFS, old, new)
              /\ \/ /\ StepOk(w, workers[w], {old, new}, TRUE)
                    /\ UNCHANGED faults
                 \/ /\ Fault
                    /\ StepErr(w, {old, new})
           \/ /\ ~can \/ taken
              /\ StepErr(w, {})
              /\ UNCHANGED <<remoteFS, faults>>
           \/ /\ Fault
              /\ StepErr(w, {})
              /\ UNCHANGED remoteFS
    /\ UNCHANGED <<cmp, opts, port, sup, localFS, stateDB, now, pc, scanVars, allPaths, tasks,
                   ops, lastRun>>

vars ==
    <<cmp, opts, port, sup, localFS, remoteFS, stateDB, now, faults, pc, localMap,
      remoteMap, baseMap, allPaths, tasks, workers, errs, ops, cur, lastRun>>

Next ==
    \/ runSync
    \/ Scan
    \/ \E path \in allPaths : DecidePath(path)
    \/ NoTasks
    \/ StartWorkers
    \/ \E w \in WorkerIds : Dequeue(w)
    \/ \E w \in WorkerIds : OpenLocal(w)
    \/ \E w \in WorkerIds : WriteRemote(w)
    \/ \E w \in WorkerIds : StatLocal(w)
    \/ \E w \in WorkerIds : PutUpload(w)
    \/ \E w \in WorkerIds : OpenRemote(w)
    \/ \E w \in WorkerIds : StatRemote(w)
    \/ \E w \in WorkerIds : WriteLocal(w)
    \/ \E w \in WorkerIds : PutDownload(w)
    \/ \E w \in WorkerIds : DeleteRemote(w)
    \/ \E w \in WorkerIds : DeleteLocal(w)
    \/ \E w \in WorkerIds : DbDeleteEntry(w)
    \/ \E w \in WorkerIds : RenameLocal(w)
    \/ \E w \in WorkerIds : RenameRemote(w)
    \/ Finish

Spec == InitEngine /\ [][Next]_vars

\* The process with its shutdown: a signal may arrive at any moment.
NextMain ==
    \/ Next
    \/ Signal
    \/ Exit

SpecMain == InitEngine /\ [][NextMain]_vars

\* The engine under KeepNewest over one path present on both sides, the local
\* file older than, as old as, or newer than the remote one.
NewestLocalTimes == {InitRemoteTime - 1, InitRemoteTime, InitRemoteTime + 1}

InitNewest ==
    /\ cmp = CmpUnused
    /\ port = PortUnused
    /\ \E k \in BOOLEAN, n \in ConfiguredWorkers :
          opts = NewEngine([EncryptKey |-> k, MaxWorkers |-> n,
                            ConflictStrategy |-> StrategyKeepNewest])
    /\ \E c \in InitContents, t \in NewestLocalTimes,
          ra \in InitRemoteEntries(opts.EncryptKey) \ {Nil},
          ba \in InitBaseEntries(opts.EncryptKey) :
          /\ localFS = TwoPaths(PathA, LFile(c, t), PathA, Nil)
          /\ remoteFS = TwoPaths(PathA, ra, PathA, Nil)
          /\ stateDB = TwoPaths(PathA, ba, PathA, Nil)
    /\ sup = MainStart
    /\ now = InitNow
    /\ faults = MaxFaults
    /\ pc = "idle"
    /\ localMap = EmptyMap
    /\ remoteMap = EmptyMap
    /\ baseMap = EmptyMap
    /\ allPaths = {}
    /\ tasks = <<>>
    /\ workers = [w \in WorkerIds |-> WorkerOff]
    /\ errs = 0
    /\ ops = EmptyMap
    /\ cur = FreshRun
    /\ lastRun = FreshRun @@ [result |-> "none"]

\* The steps an engine takes that never deletes or renames.
NextNewest ==
    \/ runSync
    \/ Scan
    \/ \E path \in allPaths : DecidePath(path)
    \/ NoTasks
    \/ StartWorkers
    \/ \E w \in WorkerIds : Dequeue(w)
    \/ \E w \in WorkerIds : OpenLocal(w)
    \/ \E w \in WorkerIds : WriteRemote(w)
    \/ \E w \in WorkerIds : StatLocal(w)
    \/ \E w \in WorkerIds : PutUpload(w)
    \/ \E w \in WorkerIds : OpenRemote(w)
    \/ \E w \in WorkerIds : StatRemote(w)
    \/ \E w \in WorkerIds : WriteLocal(w)
    \/ \E w \in WorkerIds : PutDownload(w)
    \/ Finish

SpecNewest == InitNewest /\ [][NextNewest]_vars

\* Another process writes a local file: new content, a later modification time.
EditLocal ==
    /\ \E p \in DOMAIN localFS, c \in Contents, t \in now..MaxTime :
          /\ ~localFS[p].IsDir
          /\ c # localFS[p].Data
          /\ t > localFS[p].ModTime
          /\ localFS' = MapPut(localFS, p, LFile(c, t))
          /\ now' = t
          /\ cur' = [cur EXCEPT !.edited = @ \cup
                 IF \E w \in WorkerIds :
                        /\ pc = "work"
                        /\ workers[w].todo # <<>>
                        /\ workers[w].task = Task(OpUpload, p)
                        /\ Head(workers[w].todo) \in {"WriteRemote", "StatLocal"}
                 THEN {p} ELSE {}]
    /\ UNCHANGED <<cmp, opts, port, sup, remoteFS, stateDB, faults, pc, scanVars, allPaths,
                   tasks, workers, errs, ops, lastRun>>

\* The engine over one local file that another process keeps writing.
InitEdit ==
    /\ InitEngine
    /\ DOMAIN localFS = {PathA}
    /\ ~localFS[PathA].IsDir
    /\ remoteFS = EmptyMap
    /\ stateDB = EmptyMap
    /\ opts.ConflictStrategy = StrategyKeepNewest

NextEdit ==
    \/ NextNewest
    \/ EditLocal

SpecEdit == InitEdit /\ [][NextEdit]_vars

\* The shutdown of a process that syncs one path, with what was in flight at
\* the signal on record.
InitShutdown == InitEngine /\ DOMAIN localFS \cup DOMAIN remoteFS \cup DOMAIN stateDB \subseteq {PathA}

NextShutdown ==
    \/ Next
    \/ SignalTraced
    \/ Exit

SpecShutdown == InitShutdown /\ [][NextShutdown]_vars

\* The same process under the Go scheduler: a goroutine of the engine that can
\* take a step takes one.
SpecQuit == InitShutdown /\ [][NextMain]_vars /\ WF_vars(Next)

\* The engine is not running while the decider, a port or the store is
\* exercised on its own.
EngineAtRest ==
    /\ opts = NewEngine([EncryptKey |-> FALSE, MaxWorkers |-> 0,
                         ConflictStrategy |-> StrategyRenameLocal])
    /\ localFS = EmptyMap
    /\ remoteFS = EmptyMap
    /\ stateDB = EmptyMap
    /\ sup = MainStart
    /\ now = 0
    /\ faults = 0
    /\ pc = "idle"
    /\ localMap = EmptyMap
    /\ remoteMap = EmptyMap
    /\ baseMap = EmptyMap
    /\ allPaths = {}
    /\ tasks = <<>>
    /\ workers = [w \in WorkerIds |-> WorkerOff]
    /\ errs = 0
    /\ ops = EmptyMap
    /\ cur = FreshRun
    /\ lastRun = FreshRun @@ [result |-> "none"]

\* ------------------------------------------------------ the ports on their own

\* local Adapter.Delete: os.RemoveAll, which removes what is at the path and
\* returns nil when nothing is there.
LocalDelete(tree, p) == [tree |-> MapDel(tree, p), err |-> FALSE]

\* baidu Adapter.Delete and Client.Delete: the request for an asynchronous
\* delete (async=2) and the check of the errno of the answer.  The client
\* does not fix what the API answers for a path that does not exist.
RemoteDelete(tree, p) ==
    IF p \in DOMAIN tree
    THEN {[tree |-> MapDel(tree, p), err |-> FALSE]}
    ELSE {[tree |-> tree, err |-> FALSE], [tree |-> tree, err |-> TRUE]}

\* What a call of Delete made on its own leaves on record.
DeleteReturned(side, p, before, out) ==
    [fn |-> "Delete", side |-> side, path |-> p, before |-> before, after |-> out.tree,
     err |-> out.err]

\* The paths the ports are called with.
PortPaths == {PathA, LocalConflictName(PathA), RemoteConflictName(PathA)}

\* LocalFS.Delete(p), called on its own; the call may fail for a reason of its
\* own (a permission, the disk).
LocalDeleteCall ==
    /\ \E p \in PortPaths :
          \/ /\ localFS' = LocalDelete(localFS, p).tree
             /\ port' = [port EXCEPT !.ret =
                    DeleteReturned("local", p, localFS, LocalDelete(localFS, p))]
             /\ UNCHANGED faults
          \/ /\ Fault
             /\ port' = [port EXCEPT !.ret =
                    DeleteReturned("local", p, localFS, [tree |-> localFS, err |-> TRUE])]
             /\ UNCHANGED localFS
    /\ UNCHANGED <<cmp, opts, sup, remoteFS, stateDB, now, pc, scanVars, allPaths, tasks,
                   poolVars, ops, lastRun>>

\* RemoteFS.Delete(p), called on its own; the request may fail (the network).
RemoteDeleteCall ==
    /\ \E p \in PortPaths :
          \/ /\ \E out \in RemoteDelete(remoteFS, p) :
                   /\ remoteFS' = out.tree
                   /\ port' = [port EXCEPT !.ret =
                          DeleteReturned("remote", p, remoteFS, out)]
             /\ UNCHANGED faults
          \/ /\ Fault
             /\ port' = [port EXCEPT !.ret =
                    DeleteReturned("remote", p, remoteFS, [tree |-> remoteFS, err |-> TRUE])]
             /\ UNCHANGED remoteFS
    /\ UNCHANGED <<cmp, opts, sup, localFS, stateDB, now, pc, scanVars, allPaths, tasks,
                   poolVars, ops, lastRun>>

\* Two trees as a configured process finds them, and calls of Delete on them.
InitDelete == InitEngine

NextDelete ==
    \/ LocalDeleteCall
    \/ RemoteDeleteCall

SpecDelete == InitDelete /\ [][NextDelete]_vars

\* ------------------------------------------------------ the store on its own

\* database.FileState with every field of the struct.
StoredState(path, st, isDir, syncTime) ==
    [RelPath |-> path, FileSize |-> st.FileSize, ModTime |-> st.ModTime,
     LocalHash |-> st.LocalHash, RemoteHash |-> st.RemoteHash, IsDir |-> isDir,
     LastSyncTime |-> syncTime]

\* The part of a stored state the engine reads.
StateRead(state) ==
    FileState(state.FileSize, state.ModTime, state.LocalHash, state.RemoteHash)

\* json.Marshal of a FileState: the fields under their json names, in the
\* order of the struct.
Marshal(state) ==
    << <<"rel_path", state.RelPath>>, <<"file_size", state.FileSize>>,
       <<"mod_time", state.ModTime>>, <<"local_hash", state.LocalHash>>,
       <<"remote_hash", state.RemoteHash>>, <<"is_dir", state.IsDir>>,
       <<"last_sync_time", state.LastSyncTime>> >>

\* A stored value that is no JSON document.
Corrupt == <<>>

\* The value of the field of that name in a marshalled state.
JsonField(v, name) == v[CHOOSE i \in 1..Len(v) : v[i][1] = name][2]

\* json.Unmarshal into a FileState
Unmarshal(v) ==
    IF v = Corrupt
    THEN [err |-> TRUE, state |-> Nil]
    ELSE [err |-> FALSE,
          state |-> [RelPath |-> JsonField(v, "rel_path"),
                     FileSize |-> JsonField(v, "file_size"),
                     ModTime |-> JsonField(v, "mod_time"),
                     LocalHash |-> JsonField(v, "local_hash"),
                     RemoteHash |-> JsonField(v, "remote_hash"),
                     IsDir |-> JsonField(v, "is_dir"),
                     LastSyncTime |-> JsonField(v, "last_sync_time")]]

\* DB.Get: nil and no error for a missing key
StoreGet(bucket, relPath) ==
    IF relPath \notin DOMAIN bucket
    THEN [state |-> Nil, err |-> FALSE]
    ELSE LET u == Unmarshal(bucket[relPath])
         IN  IF u.err THEN [state |-> Nil, err |-> TRUE] ELSE [state |-> u.state, err |-> FALSE]

\* A Put that leaves the value of a key that is in the bucket already.
StorePutNoReplace(bucket, state, t) ==
    LET stamped == [state EXCEPT !.LastSyncTime = t]
    IN  [bucket |-> IF state.RelPath \in DOMAIN bucket THEN bucket
                    ELSE MapPut(bucket, state.RelPath, Marshal(stamped)),
         state |-> stamped, err |-> FALSE]

\* DB.Put at time t: LastSyncTime is set in the caller's state, and the state
\* is written under its RelPath.
StorePut(bucket, state, t) ==
    LET stamped == [state EXCEPT !.LastSyncTime = t]
    IN  [bucket |-> MapPut(bucket, state.RelPath, Marshal(stamped)),
         state |-> stamped, err |-> FALSE]

\* DB.Delete: bbolt's Bucket.Delete returns nil for a missing key
StoreDelete(bucket, relPath) == [bucket |-> MapDel(bucket, relPath), err |-> FALSE]

\* A ListAll that leaves out the values it cannot unmarshal.
StoreListAllSkipping(bucket) ==
    LET good == {k \in DOMAIN bucket : ~Unmarshal(bucket[k]).err}
    IN  [result |-> [k \in good |-> Unmarshal(bucket[k]).state], err |-> FALSE]

\* DB.ListAll: ForEach stops at the first value that cannot be unmarshalled,
\* and ListAll then returns nil and the error.
StoreListAll(bucket) ==
    IF \E k \in DOMAIN bucket : Unmarshal(bucket[k]).err
    THEN [result |-> Nil, err |-> TRUE]
    ELSE [result |-> [k \in DOMAIN bucket |-> Unmarshal(bucket[k]).state], err |-> FALSE]

\* How many calls of Put and Delete are made on the store on its own.
MaxCalls == 3

\* The keys the store is called with.
StorePaths == {PathA, LocalConflictName(PathA)}

\* The states the callers hand to Put: LastSyncTime is zero (rebuildIndex) or
\* the time of the caller (doUpload, doDownload).
PutArguments ==
    {StoredState(p, st, FALSE, t) :
        p \in StorePaths, st \in InitBaseEntries(FALSE) \ {Nil}, t \in {0, now}}

\* The buckets a process may open: new, or left by an earlier process, with a
\* value that was damaged on the disk or not.
StartBuckets ==
    LET old == Marshal(StoredState(PathA, FileState(0, 0, NoHash, NoHash), FALSE, 0))
    IN  {EmptyMap,
         [p \in {PathA} |-> old],
         [p \in {PathA} |-> Corrupt],
         [p \in StorePaths |-> IF p = PathA THEN old ELSE Corrupt]}

InitStore ==
    /\ cmp = CmpUnused
    /\ \E b \in StartBuckets : port = [PortUnused EXCEPT !.bucket = b, !.start = b]
    /\ EngineAtRest

\* StateDB.Put(state), called on its own at time t.
PutCall ==
    /\ Len(port.calls) < MaxCalls
    /\ \E state \in PutArguments, t \in now..MaxTime :
          LET out == StorePut(port.bucket, state, t)
          IN  /\ port' = [port EXCEPT
                     !.bucket = out.bucket,
                     !.calls = Append(@, [fn |-> "DB.Put", state |-> state, t |-> t]),
                     !.ret = [fn |-> "DB.Put", path |-> state.RelPath, state |-> out.state,
                              err |-> out.err, before |-> port.bucket]]
              /\ now' = t
    /\ UNCHANGED <<cmp, opts, sup, treeVars, stateDB, faults, pc, scanVars, allPaths, tasks,
                   poolVars, ops, lastRun>>

\* StateDB.Delete(relPath), called on its own.
DeleteCall ==
    /\ Len(port.calls) < MaxCalls
    /\ \E relPath \in StorePaths :
          LET out == StoreDelete(port.bucket, relPath)
          IN  port' = [port EXCEPT
                  !.bucket = out.bucket,
                  !.calls = Append(@, [fn |-> "DB.Delete", path |-> relPath]),
                  !.ret = [fn |-> "DB.Delete", path |-> relPath, err |-> out.err,
                           before |-> port.bucket]]
    /\ UNCHANGED <<cmp, opts, sup, treeVars, stateDB, now, faults, pc, scanVars, allPaths,
                   tasks, poolVars, ops, lastRun>>

\* StateDB.Get(relPath), called on its own.
GetCall ==
    /\ \E relPath \in StorePaths :
          LET out == StoreGet(port.bucket, relPath)
          IN  port' = [port EXCEPT
                  !.ret = [fn |-> "DB.Get", path |-> relPath, state |-> out.state,
                           err |-> out.err]]
    /\ UNCHANGED <<cmp, opts, sup, treeVars, stateDB, now, faults, pc, scanVars, allPaths,
                   tasks, poolVars, ops, lastRun>>

\* StateDB.ListAll(), called on its own.
ListAllCall ==
    /\ LET out == StoreListAll(port.bucket)
       IN  port' = [port EXCEPT
               !.ret = [fn |-> "DB.ListAll", result |-> out.result, err |-> out.err]]
    /\ UNCHANGED <<cmp, opts, sup, treeVars, stateDB, now, faults, pc, scanVars, allPaths,
                   tasks, poolVars, ops, lastRun>>

\* engine.go Run on this store and two empty trees: Run returns the error of
\* ListAll; otherwise every path is in the store only, compare returns Ignore
\* for each, and Run returns nil at len(tasks) == 0.
RunOnStore ==
    /\ pc = "idle"
    /\ localFS = EmptyMap /\ remoteFS = EmptyMap
    /\ LET out == StoreListAll(port.bucket)
       IN  IF out.err
           THEN /\ lastRun' = [FreshRun EXCEPT !.portErr = TRUE] @@ [result |-> "err"]
                /\ port' = [port EXCEPT !.ret = [fn |-> "Run", err |-> TRUE]]
                /\ UNCHANGED <<baseMap, ops>>
           ELSE /\ baseMap' = [k \in DOMAIN out.result |-> StateRead(out.result[k])]
                /\ ops' = [k \in DOMAIN out.result |->
                              compare(Nil, Nil, baseMap'[k], opts.EncryptKey)]
                /\ \A k \in DOMAIN ops' : ops'[k] = OpIgnore
                /\ lastRun' = FreshRun @@ [result |-> "nil"]
                /\ port' = [port EXCEPT !.ret = [fn |-> "Run", err |-> FALSE]]
    /\ UNCHANGED <<cmp, opts, sup, treeVars, stateDB, now, faults, pc, localMap, remoteMap,
                   allPaths, tasks, poolVars>>

NextStore ==
    \/ PutCall
    \/ DeleteCall
    \/ GetCall
    \/ ListAllCall
    \/ RunOnStore

SpecStore == InitStore /\ [][NextStore]_vars

\* ------------------------------------------------------ the cipher on its own

\* The keys of valid length the readers are made with.
Keys == {0, 1}

\* The longest plaintext the readers are given.
MaxPlain == 3

\* Byte i of the AES-CTR key stream under the key and the IV.
CTR(key, iv, i) == (key + iv[1] + i) % 2

\* cipher.StreamReader: the bytes of src xored with the key stream.
StreamReader(key, iv, src) == [i \in 1..Len(src) |-> (src[i] + CTR(key, iv, i)) % 2]

\* utils.go NewEncryptReader read to the end: io.MultiReader of the IV and of
\* the StreamReader over the plaintext.
EncryptReader(plain, key, iv) == iv \o StreamReader(key, iv, plain)

\* A decrypting reader that takes the whole stream for ciphertext.
DecryptReaderKeepingIV(data, key) ==
    IF Len(data) < IVSize
    THEN [err |-> TRUE, out |-> <<>>]
    ELSE [err |-> FALSE, out |-> StreamReader(key, SubSeq(data, 1, IVSize), data)]

\* utils.go NewDecryptReader read to the end: io.ReadFull of the IV returns an
\* error on a stream shorter than the IV; the rest goes through the
\* StreamReader.
DecryptReader(data, key) ==
    IF Len(data) < IVSize
    THEN [err |-> TRUE, out |-> <<>>]
    ELSE [err |-> FALSE,
          out |-> StreamReader(key, SubSeq(data, 1, IVSize),
                               SubSeq(data, IVSize + 1, Len(data)))]

\* The streams that are no output of the encrypting reader: too short to hold
\* an IV.
ShortStreams == ByteStrings(MaxPlain)

\* NewEncryptReader(src, key) on a plaintext, read to the end.
EncryptCall ==
    /\ \E plain \in ByteStrings(MaxPlain), key \in Keys, iv \in IVs :
          port' = [port EXCEPT !.ret =
              [fn |-> "Encrypt", plain |-> plain, key |-> key,
               out |-> EncryptReader(plain, key, iv)]]
    /\ UNCHANGED <<cmp, opts, sup, treeVars, stateDB, now, faults, pc, scanVars, allPaths,
                   tasks, poolVars, ops, lastRun>>

\* NewDecryptReader(src, key), read to the end, on what the encrypting reader
\* has just produced.
DecryptCall ==
    /\ port.ret # Nil
    /\ port.ret.fn = "Encrypt"
    /\ \E key \in Keys :
          LET r == DecryptReader(port.ret.out, key)
          IN  port' = [port EXCEPT !.ret =
                  [fn |-> "Decrypt", src |-> port.ret.out, key |-> key, err |-> r.err,
                   out |-> r.out, wasSealed |-> TRUE, plain |-> port.ret.plain,
                   sealed |-> port.ret.key]]
    /\ UNCHANGED <<cmp, opts, sup, treeVars, stateDB, now, faults, pc, scanVars, allPaths,
                   tasks, poolVars, ops, lastRun>>

\* NewDecryptReader(src, key) on a stream that is too short to hold an IV.
DecryptShortCall ==
    /\ \E src \in ShortStreams, key \in Keys :
          LET r == DecryptReader(src, key)
          IN  port' = [port EXCEPT !.ret =
                  [fn |-> "Decrypt", src |-> src, key |-> key, err |-> r.err,
                   out |-> r.out, wasSealed |-> FALSE, plain |-> <<>>, sealed |-> key]]
    /\ UNCHANGED <<cmp, opts, sup, treeVars, stateDB, now, faults, pc, scanVars, allPaths,
                   tasks, poolVars, ops, lastRun>>

InitCrypto ==
    /\ cmp = CmpUnused
    /\ port = PortUnused
    /\ EngineAtRest

NextCrypto ==
    \/ EncryptCall
    \/ DecryptCall
    \/ DecryptShortCall

SpecCrypto == InitCrypto /\ [][NextCrypto]_vars

\* ------------------------------------------------------ the pool sizes

\* The values max_concurrent may have in the configuration.
PoolSizes == {-1, 0, 1, 2}

\* The configured process with any pool size, the size asked for on record,
\* and no encryption key.
InitPool ==
    /\ cmp = CmpUnused
    /\ \E n \in PoolSizes, s \in Strategies :
          /\ opts = NewEngine([EncryptKey |-> FALSE, MaxWorkers |-> n, ConflictStrategy |-> s])
          /\ port = [PortUnused EXCEPT !.ret = [fn |-> "NewEngine", MaxWorkers |-> n]]
    /\ \E la \in InitLocalEntries, ra \in InitRemoteEntries(opts.EncryptKey),
          ba \in InitBaseEntries(opts.EncryptKey), second \in InitSecond(opts.EncryptKey) :
          LET pb == PathB(opts.ConflictStrategy)
          IN  /\ localFS = TwoPaths(PathA, la, pb, second.l)
              /\ remoteFS = TwoPaths(PathA, ra, pb, second.r)
              /\ stateDB = TwoPaths(PathA, ba, pb, second.b)
    /\ sup = MainStart
    /\ now = InitNow
    /\ faults = MaxFaults
    /\ pc = "idle"
    /\ localMap = EmptyMap
    /\ remoteMap = EmptyMap
    /\ baseMap = EmptyMap
    /\ allPaths = {}
    /\ tasks = <<>>
    /\ workers = [w \in WorkerIds |-> WorkerOff]
    /\ errs = 0
    /\ ops = EmptyMap
    /\ cur = FreshRun
    /\ lastRun = FreshRun @@ [result |-> "none"]

SpecPool == InitPool /\ [][NextMain]_vars

\* ------------------------------------------------------ files that come back

\* The path has a snapshot entry and no file on either side.
StaleEntry(p) ==
    /\ p \in DOMAIN stateDB
    /\ p \notin DOMAIN localFS
    /\ p \notin DOMAIN remoteFS

\* What is on record of a file that another process put at a stale path.
Appeared(side, p) == [fn |-> "Appear", side |-> side, path |-> p]

\* Another process creates a local file at a path whose entry a cycle has left
\* stale: any content, any modification time (a copy may keep an old one).
AppearLocal ==
    /\ pc = "idle"
    /\ port = PortUnused
    /\ lastRun.result = "nil"
    /\ \E p \in DOMAIN stateDB, c \in Contents, t \in 0..MaxTime :
          /\ StaleEntry(p)
          /\ localFS' = MapPut(localFS, p, LFile(c, t))
          /\ port' = [port EXCEPT !.ret = Appeared("local", p)]
    /\ UNCHANGED <<cmp, opts, sup, remoteFS, stateDB, now, faults, pc, scanVars, allPaths,
                   tasks, workers, errs, ops, cur, lastRun>>

\* Another client stores a remote file at such a path.
AppearRemote ==
    /\ pc = "idle"
    /\ port = PortUnused
    /\ lastRun.result = "nil"
    /\ \E p \in DOMAIN stateDB, c \in Contents, t \in 0..MaxTime :
          /\ StaleEntry(p)
          /\ remoteFS' = MapPut(remoteFS, p, RFile(Stored(c, opts.EncryptKey), t))
          /\ port' = [port EXCEPT !.ret = Appeared("remote", p)]
    /\ UNCHANGED <<cmp, opts, sup, localFS, stateDB, now, faults, pc, scanVars, allPaths,
                   tasks, workers, errs, ops, cur, lastRun>>

\* The engine over one path; a file may come back where its entry is stale.
InitAppear ==
    /\ InitEngine
    /\ DOMAIN localFS \cup DOMAIN remoteFS \cup DOMAIN stateDB \subseteq {PathA}

NextAppear ==
    \/ Next
    \/ AppearLocal
    \/ AppearRemote

SpecAppear == InitAppear /\ [][NextAppear]_vars

\* ------------------------------------------------------ the engine's contract

\* The decision loop of a Run has visited every path.
DecisionDone == pc = "diff" /\ allPaths = {}

\* The last Run returned nil.
LastRunSucceeded == lastRun.result = "nil"

TaskFailed(w) == pc = "work" /\ workers[w].res = "err"

\* The worker's last task returned nil.
TaskSucceeded(w) == pc = "work" /\ workers[w].res = "ok"

\* C2: after a task returned an error, whichever of its calls failed, the
\* snapshot entry of the task's path is what it was before the task.
C2_FailedTaskKeepsEntry ==
    \A w \in WorkerIds :
        TaskFailed(w) => Lookup(stateDB, workers[w].task.RelPath) = workers[w].pre

\* An Upload failed after it had written the remote file.
C2_Witness ==
    \E w \in WorkerIds :
        /\ TaskFailed(w)
        /\ workers[w].task.Op = OpUpload
        /\ workers[w].task.RelPath \in cur.wrote
        /\ Lookup(stateDB, workers[w].task.RelPath) = workers[w].pre

StepLocalPaths(step, path) ==
    CASE step \in {"OpenLocal", "StatLocal", "WriteLocal", "DeleteLocal"} -> {path}
      [] step = "RenameLocal" -> {path, LocalConflictName(path)}
      [] step = "KeepNewest" -> {path}
      [] OTHER -> {}

\* The remote paths a call of a task on path reads, writes, renames or deletes.
StepRemotePaths(step, path) ==
    CASE step \in {"OpenRemote", "StatRemote", "WriteRemote", "DeleteRemote"} -> {path}
      [] step = "RenameRemote" -> {path, RemoteConflictName(path)}
      [] step = "KeepNewest" -> {path}
      [] OTHER -> {}

\* The local and the remote paths of the task a worker is inside.
TaskLocalPaths(w) ==
    LET steps == TaskSteps(workers[w].task, opts.ConflictStrategy)
    IN  UNION {StepLocalPaths(steps[i], PathOf(w)) : i \in DOMAIN steps}

TaskRemotePaths(w) ==
    LET steps == TaskSteps(workers[w].task, opts.ConflictStrategy)
    IN  UNION {StepRemotePaths(steps[i], PathOf(w)) : i \in DOMAIN steps}

\* C5: two tasks running at the same time touch no common local path and no
\* common remote path, the targets of the conflict renames included.
C5_DisjointPaths ==
    \A v, w \in WorkerIds :
        (v # w /\ pc = "work" /\ Busy(v) /\ Busy(w)) =>
            /\ TaskLocalPaths(v) \cap TaskLocalPaths(w) = {}
            /\ TaskRemotePaths(v) \cap TaskRemotePaths(w) = {}

\* C6: a DeleteRemote or DeleteLocal task deletes the snapshot entry only after
\* the delete on the file system returned nil: before that and after a failed
\* task the entry is present, after a task that returned nil it is gone.
C6_EntryDeletedAfterFile ==
    \A w \in WorkerIds :
        (pc = "work" /\ workers[w].task # Nil
                     /\ workers[w].task.Op \in {OpDeleteRemote, OpDeleteLocal}) =>
            LET entry == Lookup(stateDB, workers[w].task.RelPath)
            IN  /\ (Busy(w) /\ Head(workers[w].todo) \in {"DeleteRemote", "DeleteLocal"})
                      => entry # Nil
                /\ workers[w].res = "err" => entry # Nil
                /\ workers[w].res = "ok" => entry = Nil

\* A DeleteRemote task returned nil: the remote file and the entry are gone.
C6_Witness ==
    \E w \in WorkerIds :
        /\ TaskSucceeded(w)
        /\ workers[w].task.Op = OpDeleteRemote
        /\ workers[w].task.RelPath \notin DOMAIN remoteFS
        /\ Lookup(stateDB, workers[w].task.RelPath) = Nil

\* Worker w's task, a transfer or a conflict resolved by one, returns nil in
\* this step.
TransferReturnsNil(w) ==
    /\ pc = "work" /\ Busy(w)
    /\ workers[w].task.Op \in {OpUpload, OpDownload, OpConflict}
    /\ workers'[w].res = "ok"

\* C7: when an Upload or a Download of path p returns nil, as a task of its own
\* or inside a conflict resolution, the snapshot has an entry for p whose
\* LocalHash is the MD5 of what the local file at p holds at that moment.
C7_LocalHashIsCurrent ==
    [][\A w \in WorkerIds :
          TransferReturnsNil(w) =>
              LET p == PathOf(w)
              IN  /\ p \in DOMAIN stateDB'
                  /\ p \in DOMAIN localFS'
                  /\ ~localFS'[p].IsDir
                  /\ stateDB'[p].LocalHash = MD5(localFS'[p].Data)]_vars

\* ------------------------------------------------------ cycles that go on

\* The supervisor keeps triggering Run and the Go scheduler lets every
\* goroutine that can take a step take one: no behaviour stops while a step is
\* possible.
SpecLive == InitEngine /\ [][Next]_vars /\ WF_vars(Next)

\* No call of a port or of the store failed in this Run or in the last one.
PortQuiet == ~cur.portErr /\ ~lastRun.portErr

\* No task failed in this Run or in the last one, and no call of a port or of
\* the store did.
TasksQuiet == PortQuiet /\ cur.failed = {} /\ lastRun.failed = {}

\* The last Run emitted no task.
ZeroTaskCycle == pc = "idle" /\ lastRun.result = "nil" /\ lastRun.emitted = 0

\* Every file present on both sides has a snapshot entry.
BothSidesTracked ==
    \A p \in DOMAIN localFS \cap DOMAIN remoteFS :
        ~localFS[p].IsDir => p \in DOMAIN stateDB

CmpHashes == {NoHash, <<1>>, <<2>>}
CmpLocalSizes == {0, 1}
CmpRemoteSizes == {0, 1, 16, 17}
CmpLocalTimes == {0, 1, 2, 3}
CmpRemoteTimes == {0, 5}
CmpBaseTimes == {0, 1}

\* What a scan or a Stat of the local side can hand to compare.
CmpLocals ==
    {Nil} \cup {FileMeta(s, t, d, h, NoHash) :
                   s \in CmpLocalSizes, t \in CmpLocalTimes, d \in BOOLEAN, h \in CmpHashes}

\* What a scan or a Stat of the remote side can hand to compare.
CmpRemotes ==
    {Nil} \cup {FileMeta(s, t, d, NoHash, h) :
                   s \in CmpRemoteSizes, t \in CmpRemoteTimes, d \in BOOLEAN, h \in CmpHashes}

\* The snapshot entries compare can be handed.
CmpBases ==
    {Nil} \cup {FileState(s, t, lh, rh) :
                   s \in CmpLocalSizes, t \in CmpBaseTimes, lh \in CmpHashes, rh \in CmpHashes}

InitCompare ==
    /\ cmp \in [l : CmpLocals, r : CmpRemotes, b : CmpBases, enc : BOOLEAN, op : {"none"}]
    /\ port = PortUnused
    /\ EngineAtRest

\* One call of compare on the triple.
Decide ==
    /\ cmp.op = "none"
    /\ cmp' = [cmp EXCEPT !.op = compare(cmp.l, cmp.r, cmp.b, cmp.enc)]
    /\ UNCHANGED <<opts, port, sup, localFS, remoteFS, stateDB, now, faults, pc, localMap,
                   remoteMap, baseMap, allPaths, tasks, workers, errs, ops, cur, lastRun>>

SpecCompare == InitCompare /\ [][Decide]_vars

\* --------------------------------------------------- the decider's table

\* compare has been called on the triple.
Decided == cmp.op \in OpTypes

\* Neither side of the triple is a directory.
CmpNoDir == (cmp.l = Nil \/ ~cmp.l.IsDir) /\ (cmp.r = Nil \/ ~cmp.r.IsDir)

\* C8: when local, remote and base are all present and neither side is a
\* directory, compare returns Ignore when neither side differs from base,
\* Upload when only local differs, Download when only remote differs and
\* Conflict when both differ.
C8_BothPresentTable ==
    (Decided /\ cmp.l # Nil /\ cmp.r # Nil /\ cmp.b # Nil /\ CmpNoDir) =>
        LET localDiffers == ~isLocalSameAsBase(cmp.l, cmp.b)
            remoteDiffers == ~isRemoteSameAsBase(cmp.r, cmp.b, cmp.enc)
        IN  /\ (~localDiffers /\ ~remoteDiffers) => cmp.op = OpIgnore
            /\ (localDiffers /\ ~remoteDiffers) => cmp.op = OpUpload
            /\ (~localDiffers /\ remoteDiffers) => cmp.op = OpDownload
            /\ (localDiffers /\ remoteDiffers) => cmp.op = OpConflict

\* A triple with all three present where only the local side differs was decided.
C8_Witness ==
    /\ Decided /\ cmp.l # Nil /\ cmp.r # Nil /\ cmp.b # Nil /\ CmpNoDir
    /\ ~isLocalSameAsBase(cmp.l, cmp.b)
    /\ isRemoteSameAsBase(cmp.r, cmp.b, cmp.enc)
    /\ cmp.op = OpUpload

\* C9: when base is absent and neither side is a directory, compare returns
\* Upload if only local is present, Download if only remote is present, Ignore
\* if neither is, and with both present Ignore exactly when the remote size is
\* the local size plus 16 with encryption on (the local size with encryption
\* off), Conflict otherwise.
C9_NoBaseTable ==
    (Decided /\ cmp.b = Nil /\ CmpNoDir) =>
        /\ (cmp.l # Nil /\ cmp.r = Nil) => cmp.op = OpUpload
        /\ (cmp.l = Nil /\ cmp.r # Nil) => cmp.op = OpDownload
        /\ (cmp.l = Nil /\ cmp.r = Nil) => cmp.op = OpIgnore
        /\ (cmp.l # Nil /\ cmp.r # Nil) =>
              LET sizesMatch == cmp.r.Size = cmp.l.Size + (IF cmp.enc THEN 16 ELSE 0)
              IN  /\ cmp.op \in {OpIgnore, OpConflict}
                  /\ cmp.op = OpIgnore <=> sizesMatch

\* With encryption on and no base, a remote file 16 bytes longer than the local
\* one was decided to be the same file.
C9_Witness ==
    /\ Decided /\ cmp.b = Nil /\ CmpNoDir /\ cmp.enc
    /\ cmp.l # Nil /\ cmp.r # Nil
    /\ cmp.r.Size = cmp.l.Size + 16
    /\ cmp.op = OpIgnore

\* C10: when local is absent and base is present, compare returns Ignore if
\* remote is absent too, DeleteRemote if the remote file matches base and
\* Download if it differs from base; it never returns Upload, DeleteLocal or
\* Conflict.
C10_LocalGoneTable ==
    (Decided /\ cmp.l = Nil /\ cmp.b # Nil) =>
        /\ cmp.r = Nil => cmp.op = OpIgnore
        /\ (cmp.r # Nil /\ ~cmp.r.IsDir) =>
              IF isRemoteSameAsBase(cmp.r, cmp.b, cmp.enc)
              THEN cmp.op = OpDeleteRemote
              ELSE cmp.op = OpDownload
        /\ cmp.op \notin {OpUpload, OpDeleteLocal, OpConflict}

\* The local file is gone and the remote file differs from base: Download.
C10_Witness ==
    /\ Decided /\ cmp.l = Nil /\ cmp.b # Nil
    /\ cmp.r # Nil /\ ~cmp.r.IsDir
    /\ ~isRemoteSameAsBase(cmp.r, cmp.b, cmp.enc)
    /\ cmp.op = OpDownload

\* C11: when remote is absent and local and base are present, local no
\* directory, compare returns DeleteLocal if the local file matches base and
\* Upload if it differs; a local file that differs is never deleted.
C11_RemoteGoneTable ==
    (Decided /\ cmp.r = Nil /\ cmp.l # Nil /\ cmp.b # Nil /\ ~cmp.l.IsDir) =>
        /\ isLocalSameAsBase(cmp.l, cmp.b) => cmp.op = OpDeleteLocal
        /\ ~isLocalSameAsBase(cmp.l, cmp.b) => cmp.op = OpUpload

\* The remote file is gone and the local file differs from base: Upload.
C11_Witness ==
    /\ Decided /\ cmp.r = Nil /\ cmp.l # Nil /\ cmp.b # Nil /\ ~cmp.l.IsDir
    /\ ~isLocalSameAsBase(cmp.l, cmp.b)
    /\ cmp.op = OpUpload

\* C12: for every triple in which the local or the remote entry is a
\* directory compare returns Ignore, whatever the other side and the base are.
C12_DirectoryRuleFirst ==
    (Decided /\ ((cmp.l # Nil /\ cmp.l.IsDir) \/ (cmp.r # Nil /\ cmp.r.IsDir))) =>
        cmp.op = OpIgnore

\* A remote directory on a path whose local file is gone and whose base is
\* present was decided Ignore.
C12_Witness ==
    /\ Decided /\ cmp.l = Nil /\ cmp.b # Nil
    /\ cmp.r # Nil /\ cmp.r.IsDir
    /\ cmp.op = OpIgnore

\* C13: local matches base iff, with both hashes non-empty, the hashes are
\* equal, and otherwise the sizes are equal and the times differ by strictly
\* less than 2 seconds.  Read off compare where the remote file is gone, the
\* match deciding between DeleteLocal and Upload.
C13_LocalMatchRule ==
    (Decided /\ cmp.r = Nil /\ cmp.l # Nil /\ cmp.b # Nil /\ ~cmp.l.IsDir) =>
        LET bothHashes == cmp.l.Hash # <<>> /\ cmp.b.LocalHash # <<>>
            delta == cmp.l.ModTime - cmp.b.ModTime
            matches == IF bothHashes
                       THEN cmp.l.Hash = cmp.b.LocalHash
                       ELSE cmp.l.Size = cmp.b.FileSize /\ delta > -2 /\ delta < 2
        IN  matches <=> cmp.op = OpDeleteLocal

\* A local file without a hash, of the recorded size, modified exactly 2
\* seconds after the recorded time, was decided changed.
C13_Witness ==
    /\ Decided /\ cmp.r = Nil /\ cmp.l # Nil /\ cmp.b # Nil /\ ~cmp.l.IsDir
    /\ cmp.l.Hash = <<>>
    /\ cmp.l.Size = cmp.b.FileSize
    /\ cmp.l.ModTime - cmp.b.ModTime = 2
    /\ cmp.op = OpUpload

\* C14: remote matches base iff, with both remote hashes non-empty, the hashes
\* are equal, and otherwise the remote size is the recorded size plus 16 with
\* encryption on (the recorded size with encryption off); the remote time never
\* changes what compare returns.  The match is read off compare where the
\* local file is gone, deciding between DeleteRemote and Download.
C14_RemoteMatchRule ==
    /\ (Decided /\ cmp.l = Nil /\ cmp.b # Nil /\ cmp.r # Nil /\ ~cmp.r.IsDir) =>
          LET bothHashes == cmp.r.RemoteHash # <<>> /\ cmp.b.RemoteHash # <<>>
              matches == IF bothHashes
                         THEN cmp.r.RemoteHash = cmp.b.RemoteHash
                         ELSE cmp.r.Size = cmp.b.FileSize + (IF cmp.enc THEN 16 ELSE 0)
          IN  matches <=> cmp.op = OpDeleteRemote
    /\ (Decided /\ cmp.r # Nil) =>
          \A t \in CmpRemoteTimes \cup CmpBaseTimes :
              compare(cmp.l, [cmp.r EXCEPT !.ModTime = t], cmp.b, cmp.enc) = cmp.op

\* With encryption on and no remote hash recorded, a remote file 16 bytes
\* longer than the recorded size, stored at another time than the recorded
\* one, was decided unchanged.
C14_Witness ==
    /\ Decided /\ cmp.l = Nil /\ cmp.b # Nil /\ cmp.r # Nil /\ ~cmp.r.IsDir
    /\ cmp.enc /\ cmp.b.RemoteHash = <<>>
    /\ cmp.r.Size = cmp.b.FileSize + 16
    /\ cmp.r.ModTime # cmp.b.ModTime
    /\ cmp.op = OpDeleteRemote


\* ------------------------------------------------------ claims on the index rebuild

\* C15: the driver writes a rebuilt snapshot entry for a path only if the scan
\* found no base for it, found a local and a remote entry, neither of them a
\* directory, and the fuzzy size check passes for the two.
C15_RebuildOnlyAfterFuzzyMatch ==
    [][pc = "diff" /\ stateDB' # stateDB =>
        \A p \in DOMAIN stateDB' :
            Lookup(stateDB, p) # stateDB'[p] =>
                /\ Lookup(baseMap, p) = Nil
                /\ Lookup(localMap, p) # Nil
                /\ Lookup(remoteMap, p) # Nil
                /\ ~localMap[p].IsDir
                /\ ~remoteMap[p].IsDir
                /\ isSameFileFuzzy(localMap[p], remoteMap[p], opts.EncryptKey)]_vars

\* The step is the loop round of Run that calls rebuildIndex for path p.
RebuildStep(p) ==
    /\ pc = "diff"
    /\ p \in allPaths
    /\ allPaths' = allPaths \ {p}
    /\ Lookup(baseMap, p) = Nil
    /\ Lookup(localMap, p) # Nil
    /\ Lookup(remoteMap, p) # Nil
    /\ compare(localMap[p], remoteMap[p], Nil, opts.EncryptKey) = OpIgnore

\* The entry a rebuild for p is to write, from the local scan.
RebuildEntry(p) ==
    [FileSize |-> localMap[p].Size, ModTime |-> localMap[p].ModTime,
     LocalHash |-> localMap[p].Hash, RemoteHash |-> localMap[p].Hash]

\* Nothing but the snapshot changes in the step: no task is queued, no worker
\* holds a stream, both file trees are the same.
RebuildTouchesNothingElse ==
    /\ localFS' = localFS
    /\ remoteFS' = remoteFS
    /\ tasks' = tasks
    /\ workers' = workers
    /\ \A w \in WorkerIds : workers[w].stream = Nil

\* C16 as stated: every index rebuild for p adds the entry.
C16_Stated ==
    [][\A p \in allPaths : RebuildStep(p) =>
          /\ p \notin DOMAIN stateDB
          /\ stateDB' = MapPut(stateDB, p, RebuildEntry(p))
          /\ RebuildTouchesNothingElse]_vars

\* C16: an index rebuild for p whose Put succeeds adds exactly one snapshot
\* entry, with file_size = local.size, mod_time = local.mod_time and local_hash
\* = remote_hash = the hash of the local scan; a rebuild whose Put fails leaves
\* the snapshot as it was.  In both cases no stream is opened or written, and
\* both file trees and all other snapshot entries are unchanged.
C16_RebuildFrame ==
    [][\A p \in allPaths : RebuildStep(p) =>
          /\ p \notin DOMAIN stateDB
          /\ \/ stateDB' = MapPut(stateDB, p, RebuildEntry(p))
             \/ stateDB' = stateDB /\ faults' = faults - 1
          /\ faults' = faults => stateDB' # stateDB
          /\ RebuildTouchesNothingElse]_vars

\* A rebuild has written the entry of a local file modified at second 2, next
\* to the entry of another path.
C16_Witness ==
    /\ pc = "diff"
    /\ \E p \in DOMAIN stateDB \ DOMAIN baseMap :
          /\ p \in DOMAIN localMap /\ p \in DOMAIN remoteMap
          /\ ~localMap[p].IsDir
          /\ localMap[p].ModTime = 2
          /\ stateDB[p] = RebuildEntry(p)
          /\ DOMAIN stateDB # {p}

\* ------------------------------------------------------ claims on the cycles

\* C17: at most one cycle runs at any time: while a cycle runs a trigger starts
\* nothing, and a cycle starts only when the Run before it has returned, with
\* every task it queued taken and brought to its end, by success or by failure.
C17_OneCycleAtATime ==
    /\ [](sup.wg <= 1 /\ (pc # "idle" => sup.isSyncing /\ sup.wg = 1))
    /\ [][sup.wg' > sup.wg \/ (pc' = "run" /\ pc # "run") =>
            /\ pc = "idle"
            /\ sup.wg = 0
            /\ tasks = <<>>
            /\ \A w \in WorkerIds : workers[w] = WorkerOff]_vars

\* A second cycle is at work after a first one that had tasks has returned.
C17_Witness ==
    /\ pc = "work"
    /\ sup.isSyncing
    /\ lastRun.result # "none"
    /\ lastRun.emitted > 0
    /\ \E w \in WorkerIds : Busy(w)

\* C18 as stated: Run returns an error if and only if a task failed.
C18_Stated ==
    [][pc # "idle" /\ pc' = "idle" =>
          (lastRun'.result = "err" <=> lastRun'.failed # {})]_vars

\* C18: without cancellation and once the three scans have succeeded, a worker
\* whose task failed goes on taking tasks, Run returns only when every queued
\* task has been taken and has ended, and it returns an error if and only if a
\* task failed, errChan then holding one error for each failed task.
C18_FailureIsolated ==
    /\ [](pc = "work" =>
            \A w \in WorkerIds : workers[w].st = "loop")
    /\ [][(pc \in {"diff", "work"} /\ pc' = "idle") =>
            (/\ tasks = <<>>
             /\ \A w \in WorkerIds : ~Busy(w)
             /\ (lastRun'.result = "err") <=> (lastRun'.failed # {})
             /\ (lastRun'.failed # {}) =>
                   (pc = "work" /\ errs = Cardinality(lastRun'.failed)))]_vars

\* A Run has returned an error after one of its two tasks failed and the other
\* succeeded.
C18_Witness ==
    /\ pc = "idle"
    /\ lastRun.result = "err"
    /\ lastRun.emitted = 2
    /\ Cardinality(lastRun.failed) = 1
    /\ errs = 1

\* C19: when a listing of the scan fails, Run returns the error before it
\* decides any path: nothing is decided or queued, no worker is started, and
\* the snapshot and both file trees are as they were.
C19_ScanFailureAborts ==
    [][pc = "run" /\ faults' # faults =>
          /\ pc' = "idle"
          /\ lastRun'.result = "err"
          /\ lastRun'.emitted = 0
          /\ lastRun'.wrote = {}
          /\ stateDB' = stateDB
          /\ localFS' = localFS
          /\ remoteFS' = remoteFS
          /\ tasks' = tasks
          /\ workers' = workers
          /\ \A w \in WorkerIds : ~Busy(w)]_vars

\* A Run has returned the error of its scan, over trees and a snapshot that
\* would have given it work.
C19_Witness ==
    /\ pc = "idle"
    /\ lastRun.result = "err"
    /\ lastRun.emitted = 0
    /\ lastRun.portErr
    /\ faults = 0
    /\ DOMAIN localFS # DOMAIN remoteFS

\* C20: once cancel has been called no worker starts a task (a task is started
\* when the worker that received it has found the context not done), a worker
\* in a task keeps that task, Run returns only when every worker has returned,
\* and main returns only when the Run of the running cycle has returned.
C20_CancellationDrains ==
    /\ [][sup.cancelled =>
            \A w \in WorkerIds :
                workers'[w].todo # <<>> =>
                    (workers[w].todo # <<>> /\ workers'[w].task = workers[w].task)]_vars
    /\ [][pc = "work" /\ pc' = "idle" =>
            \A w \in WorkerIds :
                workers[w].todo = <<>> /\ (workers[w].st = "exit" \/ tasks = <<>>)]_vars
    /\ [](sup.exited => pc = "idle" /\ sup.wg = 0 /\ ~sup.isSyncing)

\* cancel has been called; one worker received the task left in the queue and
\* returned without starting it, the other is still in the task it had
\* started, and Run and main are waiting.
C20_Witness ==
    /\ sup.cancelled
    /\ ~sup.exited
    /\ pc = "work"
    /\ tasks = <<>>
    /\ cur.emitted = 2
    /\ \E w \in WorkerIds : workers[w].st = "exit" /\ workers[w].task = Nil
    /\ \E w \in WorkerIds : Busy(w)

\* ------------------------------------------------------ claims on the tasks

\* C21: once cancel has been called, a task in flight makes no call but the one
\* it was at when cancel was called: it starts no further step of its pipeline.
C21_NoFurtherStepAfterCancel ==
    [][sup.cancelled =>
          \A w \in WorkerIds :
              (workers[w].todo # <<>> /\ workers'[w].todo # workers[w].todo) =>
                  workers[w].todo = sup.inFlight[w]]_vars

\* The calls of Download(p) and of Upload(p), and of a Conflict task under each
\* policy that renames or deletes, as the contract orders them.
DownloadCalls == <<"OpenRemote", "StatRemote", "WriteLocal", "StatLocal", "PutDownload">>
UploadCalls == <<"OpenLocal", "WriteRemote", "StatLocal", "PutUpload">>
ConflictCalls(strategy) ==
    CASE strategy = StrategyRenameLocal -> <<"RenameLocal">> \o DownloadCalls
      [] strategy = StrategyRenameRemote -> <<"RenameRemote">> \o UploadCalls
      [] strategy = StrategyForceUpload -> <<"DeleteRemote">> \o UploadCalls
      [] strategy = StrategyForceDownload -> <<"DeleteLocal">> \o DownloadCalls

IsSuffix(s, t) == \E k \in 0..Len(t) : s = SubSeq(t, k + 1, Len(t))

\* Worker w is in a Conflict task.
InConflict(w) ==
    /\ pc = "work"
    /\ workers[w].todo # <<>>
    /\ workers[w].task.Op = OpConflict

\* The step is a call of worker w's task.
CallOf(w) == workers[w].todo # <<>> /\ workers'[w] # workers[w]

\* What the first call of a policy may do to the two trees: the rename to the
\* policy's name or the delete of p on one side, or nothing when it fails.
FirstCallEffect(call, p) ==
    CASE call = "RenameLocal" ->
            /\ remoteFS' = remoteFS
            /\ localFS' \in {localFS, MapPut(MapDel(localFS, p), p \o ".local", localFS[p])}
      [] call = "RenameRemote" ->
            /\ localFS' = localFS
            /\ remoteFS' \in {remoteFS, MapPut(MapDel(remoteFS, p), p \o ".remote", remoteFS[p])}
      [] call = "DeleteRemote" ->
            /\ localFS' = localFS
            /\ remoteFS' \in {remoteFS, MapDel(remoteFS, p)}
      [] call = "DeleteLocal" ->
            /\ remoteFS' = remoteFS
            /\ localFS' \in {localFS, MapDel(localFS, p)}
      [] OTHER -> TRUE

\* C22: under RenameLocal, RenameRemote, ForceUpload and ForceDownload a
\* Conflict task on p makes the calls of its policy in the contract's order and
\* no other: the rename of p to p.local or p.remote, or the delete of p, on the
\* policy's side, then the calls of Download(p) or Upload(p).
C22_ConflictPolicyOrder ==
    /\ [](\A w \in WorkerIds :
            (InConflict(w) /\ opts.ConflictStrategy # StrategyKeepNewest) =>
                IsSuffix(workers[w].todo, ConflictCalls(opts.ConflictStrategy)))
    /\ [][\A w \in WorkerIds :
            (InConflict(w) /\ CallOf(w) /\ opts.ConflictStrategy # StrategyKeepNewest) =>
                (/\ workers'[w].todo \in {<<>>, Tail(workers[w].todo)}
                 /\ FirstCallEffect(Head(workers[w].todo), workers[w].task.RelPath))]_vars

\* A Conflict task under a renaming policy has returned nil: the file is under
\* the conflict name and the transfer has written the path.
C22_Witness ==
    /\ pc = "work"
    /\ cur.renamed
    /\ \E w \in WorkerIds :
          /\ workers[w].res = "ok"
          /\ workers[w].task.Op = OpConflict
          /\ workers[w].task.RelPath \in DOMAIN stateDB
          /\ workers[w].task.RelPath \in cur.wrote

\* Worker w is at the first step of its Conflict task: the rename or the
\* delete of the policy, or one of the two stats of KeepNewest.
AtFirstConflictStep(w) ==
    /\ InConflict(w)
    /\ Head(workers[w].todo) \in
          {"RenameLocal", "RenameRemote", "DeleteRemote", "DeleteLocal"}
       \/ workers[w].todo \in {<<"StatLocal", "StatRemote", "KeepNewest">>,
                               <<"StatRemote", "KeepNewest">>}

\* C23: when the first step of a conflict policy fails, the task returns the
\* error (one more error in errChan), starts no call of the transfer, and
\* leaves the snapshot as it was; what the failed call did to its side stays.
C23_FirstStepFailureAborts ==
    [][\A w \in WorkerIds :
          (AtFirstConflictStep(w) /\ CallOf(w) /\ errs' # errs) =>
              (/\ errs' = errs + 1
               /\ workers'[w].todo = <<>>
               /\ workers'[w].res = "err"
               /\ workers'[w].task = workers[w].task
               /\ cur'.failed = cur.failed \cup {workers[w].task}
               /\ stateDB' = stateDB
               /\ FirstCallEffect(Head(workers[w].todo), workers[w].task.RelPath))]_vars

\* Under RenameRemote the rename of a Conflict task failed: the task has
\* returned its error, the remote file is still under its name, nothing was
\* written and the snapshot entry is the one the task found.
C23_Witness ==
    /\ pc = "work"
    /\ opts.ConflictStrategy = StrategyRenameRemote
    /\ cur.wrote = {}
    /\ \E w \in WorkerIds :
          /\ workers[w].res = "err"
          /\ workers[w].todo = <<>>
          /\ workers[w].task.Op = OpConflict
          /\ workers[w].task.RelPath \in DOMAIN remoteFS
          /\ RemoteConflictName(workers[w].task.RelPath) \notin DOMAIN remoteFS
          /\ Lookup(stateDB, workers[w].task.RelPath) = workers[w].pre

\* Worker w's Conflict task under KeepNewest makes its second stat, and the
\* stat succeeds.
KeepNewestDecides(w) ==
    /\ InConflict(w)
    /\ opts.ConflictStrategy = StrategyKeepNewest
    /\ workers[w].todo = <<"StatRemote", "KeepNewest">>
    /\ workers'[w].todo # <<>>

\* C24: under KeepNewest a Conflict task on p stats both sides and goes on with
\* the calls of Upload(p) when the local file's time is strictly later than the
\* remote file's, with those of Download(p) otherwise, equal times included;
\* when the task returns nil the snapshot's local_hash of p is the MD5 of the
\* local content.
C24_KeepNewest ==
    /\ [][\A w \in WorkerIds :
            KeepNewestDecides(w) =>
                LET p == workers[w].task.RelPath
                IN  workers'[w].todo =
                        IF localFS[p].ModTime > remoteFS[p].ModTime
                        THEN UploadCalls ELSE DownloadCalls]_vars
    /\ [][\A w \in WorkerIds :
            (InConflict(w) /\ opts.ConflictStrategy = StrategyKeepNewest
                /\ workers'[w].res = "ok" /\ workers'[w].todo = <<>>) =>
                LET p == workers[w].task.RelPath
                IN  /\ p \in DOMAIN stateDB'
                    /\ p \in DOMAIN localFS'
                    /\ stateDB'[p].LocalHash = MD5(localFS'[p].Data)]_vars

\* A Conflict task under KeepNewest has returned nil after a download, the
\* local file having been exactly as old as the remote one.
C24_Witness ==
    /\ pc = "work"
    /\ opts.ConflictStrategy = StrategyKeepNewest
    /\ \E w \in WorkerIds :
          /\ workers[w].res = "ok"
          /\ workers[w].task.Op = OpConflict
          /\ LET p == workers[w].task.RelPath
             IN  /\ localMap[p].ModTime = remoteMap[p].ModTime
                 /\ localFS[p].Data # <<>>
                 /\ stateDB[p].LocalHash = MD5(localFS[p].Data)
                 /\ remoteFS[p].ModTime = remoteMap[p].ModTime

\* The remote file at p holds the content of the local file at p.
SameContent(p) ==
    LET sent == remoteFS[p].Data
    IN  IF opts.EncryptKey
        THEN CanDecrypt(sent) /\ DecryptBytes(sent) = localFS[p].Data
        ELSE sent = localFS[p].Data

\* C25: when the local file at p was written during its upload, after it was
\* read for the transfer and before the Stat that follows the transfer, and the
\* Run returned nil, the next Run decides Upload for p as long as the remote
\* file does not hold the local content.
C25_EditedDuringUploadIsUploadedAgain ==
    \A p \in lastRun.edited :
        (/\ DecisionDone
         /\ lastRun.result = "nil"
         /\ p \in DOMAIN localFS
         /\ p \in DOMAIN remoteFS
         /\ localMap = LocalListAll(localFS)
         /\ ~SameContent(p)) => ops[p] = OpUpload

\* The last scan found a snapshot entry for p and no file on either side.
StaleAtScan(p) ==
    /\ p \in DOMAIN baseMap
    /\ p \notin DOMAIN localMap
    /\ p \notin DOMAIN remoteMap

\* A task on p is queued or in the hands of a worker.
TaskPending(p) ==
    \/ \E i \in 1..Len(tasks) : tasks[i].RelPath = p
    \/ \E w \in DOMAIN workers : workers[w].task # Nil /\ workers[w].task.RelPath = p

\* C26: for a path that has a snapshot entry and no file on either side when a
\* cycle scans, the cycle decides Ignore, emits no task on it, and the entry
\* stays in the store as it was, in that cycle and every later one.
C26_StaleEntryKept ==
    \A p \in DOMAIN baseMap :
        StaleAtScan(p) =>
            /\ p \in DOMAIN ops => ops[p] = OpIgnore
            /\ ~TaskPending(p)
            /\ p \in DOMAIN stateDB
            /\ stateDB[p] = baseMap[p]

\* A cycle that ran a task on another path has returned, and the entry of a
\* path absent on both sides is still in the store.
C26_Witness ==
    /\ pc = "idle"
    /\ lastRun.result # "none"
    /\ lastRun.emitted > 0
    /\ \E p \in DOMAIN baseMap :
          /\ StaleAtScan(p)
          /\ p \notin DOMAIN localFS \cup DOMAIN remoteFS
          /\ p \in DOMAIN ops
          /\ stateDB[p] = baseMap[p]

\* Worker w's Upload or Download task (or the transfer a conflict ended with)
\* returns nil in this step: its StateDB.Put succeeded.
TransferSucceeds(w) ==
    /\ pc = "work"
    /\ Busy(w)
    /\ Head(workers[w].todo) \in {"PutUpload", "PutDownload"}
    /\ workers'[w].res = "ok"

\* C27: with no encryption key, when an Upload or a Download of p returns nil
\* the snapshot entry of p holds a remote hash equal to its local hash.
C27_PlainHashesAgree ==
    [][\A w \in WorkerIds :
          (~opts.EncryptKey /\ TransferSucceeds(w)) =>
              (/\ PathOf(w) \in DOMAIN stateDB'
               /\ stateDB'[PathOf(w)].RemoteHash = stateDB'[PathOf(w)].LocalHash)]_vars

\* Delete was called on its own for a path where nothing was.
DeletedAbsent ==
    /\ port.ret # Nil
    /\ port.ret.fn = "Delete"
    /\ port.ret.path \notin DOMAIN port.ret.before

\* C28: Delete(path), of the local and of the remote implementation of the
\* port, returns an error and changes nothing when no file or directory is at
\* the path.
C28_DeleteAbsentIsError ==
    DeletedAbsent => (port.ret.err /\ port.ret.after = port.ret.before)

\* ------------------------------------------------------ claims on the store

\* A value of the bucket is no JSON document.
HasCorrupt(bucket) == \E k \in DOMAIN bucket : bucket[k] = Corrupt

\* Run was called on the store and has returned in this step.
RunReturns == pc = "idle" /\ port'.ret # Nil /\ port'.ret.fn = "Run" /\ port'.ret # port.ret

\* C29: when the value of one key of the store cannot be unmarshalled, ListAll
\* returns an error and no map, not even of the other keys, and a Run that
\* calls it returns the error with no task emitted or run, no entry of the
\* store dropped and neither tree touched.
C29_CorruptEntryAbortsCycle ==
    /\ [](( /\ port.ret # Nil
            /\ port.ret.fn = "DB.ListAll"
            /\ HasCorrupt(port.bucket)) => (port.ret.err /\ port.ret.result = Nil))
    /\ [][(HasCorrupt(port.bucket) /\ RunReturns) =>
             (/\ port'.ret.err
              /\ lastRun'.result = "err"
              /\ lastRun'.emitted = 0
              /\ tasks' = <<>>
              /\ port'.bucket = port.bucket
              /\ UNCHANGED <<localFS, remoteFS, stateDB, workers>>)]_vars

\* ListAll and Run have failed on a bucket that holds a good value next to the
\* damaged one, and the bucket still holds both.
C29_Witness ==
    /\ HasCorrupt(port.bucket)
    /\ \E k \in DOMAIN port.bucket : port.bucket[k] # Corrupt
    /\ port.ret # Nil
    /\ port.ret.fn = "DB.ListAll"
    /\ port.ret.err
    /\ lastRun.result = "err"
    /\ port.bucket = port.start

RECURSIVE LastPut(_, _)
\* The state of the last Put of path p in the calls that no Delete of p
\* follows, as Put stamped it, or nil.
LastPut(calls, p) ==
    IF calls = <<>> THEN Nil
    ELSE LET c == calls[Len(calls)]
         IN  IF c.fn = "DB.Put" /\ c.state.RelPath = p
             THEN [c.state EXCEPT !.LastSyncTime = c.t]
             ELSE IF c.fn = "DB.Delete" /\ c.path = p THEN Nil
             ELSE LastPut(SubSeq(calls, 1, Len(calls) - 1), p)

\* C30: on a store that was opened empty, after any calls of Put and Delete,
\* Get(p) returns the state of the last Put(p) that no Delete(p) follows and
\* nil when there is none, ListAll holds exactly those states, one under each
\* path, Put on a key that is there replaces its value and touches no other,
\* and Delete of a key that is not there returns nil and changes nothing.
C30_StoreIsAMap ==
    (port.start = EmptyMap /\ port.ret # Nil) =>
        /\ port.ret.fn = "DB.Get" =>
              (~port.ret.err /\ port.ret.state = LastPut(port.calls, port.ret.path))
        /\ port.ret.fn = "DB.ListAll" =>
              /\ ~port.ret.err
              /\ DOMAIN port.ret.result = {p \in StorePaths : LastPut(port.calls, p) # Nil}
              /\ \A p \in DOMAIN port.ret.result :
                    /\ port.ret.result[p] = LastPut(port.calls, p)
                    /\ port.ret.result[p].RelPath = p
        /\ port.ret.fn = "DB.Put" =>
              /\ ~port.ret.err
              /\ DOMAIN port.bucket = DOMAIN port.ret.before \cup {port.ret.path}
              /\ port.bucket[port.ret.path] = Marshal(port.ret.state)
              /\ \A q \in DOMAIN port.ret.before \ {port.ret.path} :
                    port.bucket[q] = port.ret.before[q]
        /\ (port.ret.fn = "DB.Delete" /\ port.ret.path \notin DOMAIN port.ret.before) =>
              (~port.ret.err /\ port.bucket = port.ret.before)

\* Two Puts of one path with different states and the Delete of a path that
\* is not in the store have been made, and Get returns the second state.
C30_Witness ==
    /\ port.start = EmptyMap
    /\ Len(port.calls) = 3
    /\ port.calls[1].fn = "DB.Put"
    /\ port.calls[2].fn = "DB.Put"
    /\ port.calls[3].fn = "DB.Delete"
    /\ port.calls[1].state.RelPath = port.calls[2].state.RelPath
    /\ port.calls[1].state.LocalHash # port.calls[2].state.LocalHash
    /\ port.calls[3].path # port.calls[1].state.RelPath
    /\ port.ret # Nil
    /\ port.ret.fn = "DB.Get"
    /\ port.ret.path = port.calls[2].state.RelPath
    /\ port.ret.state # Nil
    /\ port.ret.state.LocalHash = port.calls[2].state.LocalHash
    /\ port.ret.state.LastSyncTime = port.calls[2].t

\* ------------------------------------------------------ claims on the cipher

\* C31: for every plaintext, the empty one too, and every key, the encrypting
\* reader read to the end yields 16 bytes more than the plaintext, the
\* decrypting reader with the same key yields the plaintext from them, and the
\* decrypting reader fails on a stream shorter than 16 bytes.
C31_CipherRoundTrip ==
    port.ret # Nil =>
        /\ port.ret.fn = "Encrypt" => Len(port.ret.out) = Len(port.ret.plain) + 16
        /\ (port.ret.fn = "Decrypt" /\ port.ret.wasSealed /\ port.ret.key = port.ret.sealed)
              => (~port.ret.err /\ port.ret.out = port.ret.plain)
        /\ (port.ret.fn = "Decrypt" /\ Len(port.ret.src) < 16) => port.ret.err

\* The 16 bytes the empty plaintext was encrypted to have been decrypted with
\* the same key.
C31_Witness ==
    /\ port.ret # Nil
    /\ port.ret.fn = "Decrypt"
    /\ port.ret.wasSealed
    /\ port.ret.plain = <<>>
    /\ Len(port.ret.src) = 16
    /\ port.ret.key = port.ret.sealed
    /\ port.ret.out = <<>>

\* ------------------------------------------------------ claims on the pool

\* No worker goroutine of the engine exists.
NoWorker == \A w \in DOMAIN workers : workers[w] = WorkerOff

\* The step is a call of a worker that writes or deletes the entry of the path
\* of its task, and no other entry.
WorkerWritesEntry ==
    \E w \in DOMAIN workers :
        /\ Busy(w)
        /\ Head(workers[w].todo) \in {"PutUpload", "PutDownload", "DbDelete"}
        /\ \A q \in (DOMAIN stateDB \cup DOMAIN stateDB') \ {PathOf(w)} :
              Lookup(stateDB', q) = Lookup(stateDB, q)

\* C32: the index rebuilds of a cycle are written by the driver in its decision
\* loop, one path after another, while no worker exists; once the workers are
\* started the snapshot is written by their tasks only.
C32_RebuildBeforeWorkers ==
    /\ [](pc = "diff" => NoWorker)
    /\ [][stateDB' # stateDB =>
             \/ /\ pc = "diff"
                /\ NoWorker
                /\ workers' = workers
                /\ \E p \in allPaths :
                      RebuildStep(p) /\ stateDB' = MapPut(stateDB, p, RebuildEntry(p))
             \/ /\ pc = "work"
                /\ WorkerWritesEntry]_vars

\* The workers run the task of one path while the store holds the entry the
\* driver has rebuilt for another in the same cycle.
C32_Witness ==
    /\ pc = "work"
    /\ \E w \in DOMAIN workers : Busy(w)
    /\ \E p \in DOMAIN stateDB \ DOMAIN baseMap :
          /\ p \in DOMAIN ops
          /\ ops[p] = OpIgnore
          /\ stateDB[p] = RebuildEntry(p)

\* The tasks the decision loop emitted, from what compare returned.
EmittedTasks == {Task(ops[p], p) : p \in {q \in DOMAIN ops : ops[q] # OpIgnore}}

\* The tasks in the queue.
Queued == {tasks[i] : i \in 1..Len(tasks)}

\* The workers that are inside a task.
Executing == {w \in DOMAIN workers : Busy(w)}

\* C33: the queue holds every emitted task, once, when the workers are started
\* and is never added to afterwards; a task leaves the queue into the hands of
\* exactly one worker, which starts it or, after cancel, returns; no task is
\* held by two workers or by a worker and the queue; without cancellation Run
\* returns only when the queue is empty and every task started has ended; and
\* never more than MaxWorkers tasks are executing, MaxWorkers being 3 when 0 or
\* less was configured.
C33_QueueAndPool ==
    /\ [](/\ opts.MaxWorkers = (IF port.ret.MaxWorkers <= 0 THEN 3 ELSE port.ret.MaxWorkers)
          /\ DOMAIN workers = 1..opts.MaxWorkers
          /\ Cardinality(Executing) <= opts.MaxWorkers
          /\ pc = "work" =>
                /\ Cardinality(Queued) = Len(tasks)
                /\ Queued \subseteq EmittedTasks
                /\ \A w \in DOMAIN workers : workers[w].task \notin Queued
                /\ \A v, w \in DOMAIN workers :
                      (v # w /\ workers[v].task # Nil) => workers[v].task # workers[w].task)
    /\ [][pc = "diff" /\ pc' = "work" =>
             /\ NoWorker
             /\ tasks' = tasks
             /\ Queued = EmittedTasks
             /\ Len(tasks) = cur.emitted
             /\ Executing' = {}]_vars
    /\ [][pc = "work" /\ pc' = "work" /\ workers' # workers =>
             \E w \in DOMAIN workers :
                /\ \A v \in DOMAIN workers \ {w} : workers'[v] = workers[v]
                /\ \/ /\ tasks' = tasks
                      /\ Busy(w)
                      /\ workers'[w].task = workers[w].task
                   \/ /\ tasks # <<>>
                      /\ tasks' = Tail(tasks)
                      /\ ~Busy(w)
                      /\ IF sup.cancelled
                         THEN workers'[w].st = "exit" /\ workers'[w].todo = <<>>
                         ELSE workers'[w].task = Head(tasks) /\ workers'[w].todo # <<>>]_vars
    /\ [][pc = "work" /\ workers' = workers => tasks' = tasks]_vars
    /\ [][pc = "work" /\ pc' = "idle" /\ ~sup.cancelled =>
             tasks = <<>> /\ Executing = {}]_vars

\* A process configured with 0 workers runs two tasks at once in a pool of 3.
C33_Witness ==
    /\ port.ret.MaxWorkers = 0
    /\ pc = "work"
    /\ Cardinality(DOMAIN workers) = 3
    /\ Cardinality(Executing) = 2
    /\ tasks = <<>>
    /\ cur.emitted = 2

\* ------------------------------------------------------ claims on deletions

DeleteOps == {OpDeleteLocal, OpDeleteRemote}

\* A DeleteLocal or DeleteRemote task is queued or in the hands of a worker.
DeleteTaskPending ==
    \/ \E i \in 1..Len(tasks) : tasks[i].Op \in DeleteOps
    \/ \E w \in DOMAIN workers : workers[w].task # Nil /\ workers[w].task.Op \in DeleteOps

\* C34: for a path the scan found no snapshot entry for, compare returns
\* neither DeleteLocal nor DeleteRemote, and a cycle whose scan found the
\* snapshot empty queues and runs no DeleteLocal and no DeleteRemote task.
C34_NoDeleteWithoutBase ==
    /\ \A p \in DOMAIN ops : Lookup(baseMap, p) = Nil => ops[p] \notin DeleteOps
    /\ (pc \in {"diff", "work"} /\ baseMap = EmptyMap) => ~DeleteTaskPending

\* A cycle that found the snapshot empty and a file on the remote side only is
\* downloading it.
C34_Witness ==
    /\ pc = "work"
    /\ baseMap = EmptyMap
    /\ \E w \in DOMAIN workers :
          /\ Busy(w)
          /\ workers[w].task.Op = OpDownload
          /\ PathOf(w) \notin DOMAIN localMap
          /\ PathOf(w) \in DOMAIN remoteMap

\* The conflict on path p failed in the last Run under a policy that deletes
\* one copy first, after that copy was deleted.
ForcedConflictFailed(p) ==
    /\ opts.ConflictStrategy \in {StrategyForceUpload, StrategyForceDownload}
    /\ Task(OpConflict, p) \in lastRun.failed
    /\ p \in lastRun.wrote

\* The operation that brings the surviving copy to the other side.
ForcedTransfer == IF opts.ConflictStrategy = StrategyForceUpload THEN OpUpload ELSE OpDownload

\* C35 as stated: after a conflict whose delete was made and whose transfer
\* failed, the next cycle decides the transfer for the path.
C35_Stated ==
    DecisionDone =>
        \A p \in DOMAIN ops : ForcedConflictFailed(p) => ops[p] = ForcedTransfer

\* C35: after a conflict under ForceUpload (ForceDownload) whose delete of the
\* remote (local) copy was made and whose transfer then failed, with nothing
\* changed from outside, the next cycle finds the local (remote) copy, decides
\* neither DeleteLocal nor DeleteRemote for the path, and decides Upload
\* (Download) when the failed transfer left no file on the other side.
C35_SurvivorNeverDeleted ==
    DecisionDone =>
        \A p \in DOMAIN localFS \cup DOMAIN remoteFS \cup DOMAIN stateDB :
            ForcedConflictFailed(p) =>
                /\ p \in DOMAIN ops
                /\ ops[p] \notin DeleteOps
                /\ opts.ConflictStrategy = StrategyForceUpload =>
                      /\ p \in DOMAIN localMap
                      /\ p \notin DOMAIN remoteMap => ops[p] = OpUpload
                /\ opts.ConflictStrategy = StrategyForceDownload =>
                      /\ p \in DOMAIN remoteMap
                      /\ p \notin DOMAIN localMap => ops[p] = OpDownload

\* The remote copy of a path that has a snapshot entry was deleted under
\* ForceUpload, the Upload failed and left no remote file, and the next cycle
\* decides Upload.
C35_Witness ==
    /\ DecisionDone
    /\ opts.ConflictStrategy = StrategyForceUpload
    /\ \E p \in DOMAIN ops :
          /\ ForcedConflictFailed(p)
          /\ p \in DOMAIN baseMap
          /\ p \notin DOMAIN remoteMap
          /\ ops[p] = OpUpload

\* Worker w's Conflict task under a rename policy returns nil with this step.
RenameTaskReturnsNil(w) ==
    /\ opts.ConflictStrategy \in {StrategyRenameLocal, StrategyRenameRemote}
    /\ pc = "work"
    /\ Busy(w)
    /\ workers[w].task.Op = OpConflict
    /\ workers'[w].res = "ok"
    /\ ~(workers'[w].todo # <<>>)

\* C36: when a Conflict task under RenameLocal or RenameRemote returns nil,
\* every file content that the local or the remote side held when the task was
\* taken, at any path, is still held by a file of one of the two sides.
C36_RenameKeepsContents ==
    [][\A w \in WorkerIds :
          RenameTaskReturnsNil(w) =>
              workers[w].had \subseteq FileContents(localFS', remoteFS', opts.EncryptKey)]_vars

\* The scan of this cycle found the file that appeared at the stale path p on
\* the given side, no file on the other side, and the entry.
FoundAppeared(side, p) ==
    /\ port.ret = Appeared(side, p)
    /\ p \in DOMAIN baseMap
    /\ IF side = "local"
       THEN p \in DOMAIN localMap /\ p \notin DOMAIN remoteMap
       ELSE p \in DOMAIN remoteMap /\ p \notin DOMAIN localMap

\* C37: when a file appears on exactly one side at a path that has a snapshot
\* entry and had disappeared from both sides, the next cycle decides Upload for
\* a local file and Download for a remote one, never a delete, whatever the
\* file's size, hash and modification time.
C37_AppearedFileIsTransferred ==
    DecisionDone =>
        \A p \in DOMAIN stateDB :
            /\ FoundAppeared("local", p) => (p \in DOMAIN ops /\ ops[p] = OpUpload)
            /\ FoundAppeared("remote", p) => (p \in DOMAIN ops /\ ops[p] = OpDownload)

\* A worker is in a send to errChan that cannot go through.
SendBlocked == \E w \in WorkerIds : workers[w].st = "send"

\* C38: every Run returns, with or without cancellation, each call of a port or
\* of the store returning: no worker ever blocks in its send to errChan, which
\* has room for one error per task, every worker leaves its loop when the queue
\* is drained or it sees the cancellation, and Run returns.
C38_RunTerminates ==
    /\ [](pc = "work" => (~SendBlocked /\ errs <= ErrChanCap(cur.emitted)))
    /\ (pc # "idle") ~> (pc = "idle")

\* Every task of a Run has failed, the channel is full, and the cancellation
\* has been requested while the workers are still in their loops.
C38_Witness ==
    /\ pc = "work"
    /\ errs > 0
    /\ errs = ErrChanCap(cur.emitted)
    /\ sup.cancelled
    /\ ~SendBlocked

\* ------------------------------------------------------ claims on dropped tasks

\* With this step worker w receives a task after the cancellation was requested.
ReceivesAfterCancel(w) ==
    /\ pc = "work"
    /\ sup.cancelled
    /\ tasks # <<>>
    /\ tasks' = Tail(tasks)
    /\ workers'[w] # workers[w]

\* C39: a task a worker receives after the cancellation was requested is
\* dropped: the worker returns without a call of a port or of the store (the
\* trees and the snapshot are unchanged), the task is not recorded as failed and
\* no error is sent; and a Run whose tasks were taken returns an error exactly
\* when a task that was executed failed.
C39_DroppedTaskIsNoFailure ==
    /\ [][\A w \in WorkerIds :
             ReceivesAfterCancel(w) =>
                 /\ workers'[w].st = "exit"
                 /\ workers'[w].todo = <<>>
                 /\ workers'[w].task = workers[w].task
                 /\ workers'[w].res = workers[w].res
                 /\ UNCHANGED <<localFS, remoteFS, stateDB, errs, cur>>]_vars
    /\ [][(pc = "work" /\ pc' = "idle") =>
             /\ lastRun'.result = (IF cur.failed # {} THEN "err" ELSE "nil")
             /\ lastRun'.failed = cur.failed
             /\ Cardinality(cur.failed) = errs]_vars

\* Both tasks of a Run were dropped: the two workers have returned on the
\* cancellation, neither has executed a task, the queue is empty and no error
\* was sent.
C39_Witness ==
    /\ pc = "work"
    /\ sup.cancelled
    /\ cur.emitted = 2
    /\ tasks = <<>>
    /\ errs = 0
    /\ \A w \in WorkerIds : workers[w].st = "exit" /\ workers[w].task = Nil

====
